---- MODULE Spec2Model ----
(***************************************************************************)
(* TwinSync Spot: a model of the storage rows (spots, checks, api tokens), *)
(* the request handlers that change them, the home-hub snapshot retry     *)
(* loop, the vision analyzer boundary, the memory engine's recurring-item *)
(* count, the cron scheduler wrapper and the dream-state generating flag. *)
(*                                                                         *)
(* Each part has its own specification over its own variables; the        *)
(* variables of the other parts stay at their initial values.             *)
(***************************************************************************)
EXTENDS Integers, Sequences, FiniteSets, TLC

VARIABLES
    spots,          \* spots table: id -> row (present = FALSE: no such row)
    nextSpotId,     \* AUTOINCREMENT of spots.id
    checks,         \* checks table: sequence of rows in id order
    nextCheckId,    \* AUTOINCREMENT of checks.id
    now,            \* datetime.utcnow(), in minutes
    foreign_keys,   \* the connection's foreign_keys setting
    resp            \* the results list of the last response (check-all's; else empty)

\* HACamera.get_snapshot / get_snapshot_with_error
VARIABLES
    ha_token,       \* is a home-hub token configured
    ha_method,      \* which of the two methods is running
    ha_pc,          \* "idle", "attempt" (in the retry loop) or "done"
    ha_attempt,     \* the loop variable `attempt`
    ha_log,         \* what each _get_snapshot_once of this call returned
    ha_backoffs,    \* the seconds slept between the attempts of this call
    ha_result       \* what the call returned

\* SpotAnalyzer.analyze
VARIABLES
    an_call,        \* the configuration and the API's reply of the last call
    an_result       \* what the last call gave back

\* Database.get_spot_memory and MemoryEngine, for one spot
VARIABLES
    mem_checks,     \* the spot's check rows: timestamp (days) and to_sort names
    mem_now,        \* datetime.utcnow(), in days
    mem_recurring   \* patterns.recurring_items of the last memory computed

\* The api_tokens table
VARIABLES
    tokens,         \* api_tokens: id -> row (present = FALSE: no such row)
    nextTokenId,    \* AUTOINCREMENT of api_tokens.id
    tok_revoked,    \* the token strings whose revoke_api_token returned True
    tok_answer      \* what the last verify / revoke / delete returned

\* SpotScheduler
VARIABLES
    jobs,           \* the cron library's job store: a set of jobs
    cron_validates, \* does the cron library's CronTrigger check its field ranges
    sched_running,  \* has scheduler.start() been reached
    sched_call,     \* the last update_spot_schedule / clear_spot_schedule call
    sched_fired     \* the last run of _run_spot_check

\* Dream state generation
VARIABLES
    dream_state_generating, \* spots.dream_state_generating, per spot
    dream_state_image,      \* has the spot a dream_state_image
    total_checks,           \* memory.total_checks, per spot
    dream_tasks,            \* the generations under way
    dream_last,             \* how the last finished generation of a spot ended
    dream_skipped           \* the spot of the last trigger that was told to skip, or 0

\* DreamStateGenerator.generate_dream_state
VARIABLES
    gen_pc,        \* "idle", "trying" (in the provider loop) or "done"
    gen_keys,      \* the providers an API key is configured for
    gen_providers, \* the providers list the run built
    gen_idx,       \* position in the providers list
    gen_attempt,   \* attempt of the retry loop, from 0
    gen_log,       \* the provider calls made, in order
    gen_result     \* the (image_path, error_msg) returned

\* SpotAnalyzer._parse_response on the items of a reply
VARIABLES
    pr_reply,   \* the JSON document parsed last
    pr_result   \* the to_sort list of the CheckResult built from it

\* MemoryEngine.calculate_memory: best and worst day
VARIABLES
    day_checks,  \* the checks handed to calculate_memory, oldest first
    day_best,    \* patterns.best_day, "None" for None
    day_worst    \* patterns.worst_day

\* Gamification: levels and XP
VARIABLES
    xp_total,   \* gamification.xp_total
    lv_result,  \* calculate_level(xp_total)
    xa_call,    \* the last calculate_xp_for_action call
    xa_earned   \* what it returned

\* CameraManager
VARIABLES
    cm_camera_id,  \* the identifier of the last request, a string of characters
    cm_adapter     \* the adapter the request was handed to

\* The checks table with its serialised columns
VARIABLES
    ck_rows,         \* the rows of checks, the i-th with id i
    ck_spot_status,  \* spots.status of the spot the checks belong to
    ck_last_check,   \* spots.last_check of that spot
    ck_clock,        \* datetime.utcnow()
    ck_saved,        \* the CheckResult handed to save_check, by returned id
    ck_loaded        \* what the last get_check returned

\* The history of checks and the handlers that edit it
VARIABLES
    hc_checks,   \* the rows of checks, in id order, deleted rows gone
    hc_next_id,  \* AUTOINCREMENT of checks.id
    hc_clock,    \* datetime.utcnow()
    hc_spots,    \* the spots the checks belong to: status and reset counters
    hc_xp,       \* gamification.xp_total
    hc_op        \* the last request and its answer

\* The schedule endpoints
VARIABLES
    api_schedule,  \* spots.check_schedule by spot id (<<>>: NULL or "[]")
    api_resp       \* the last schedule request and its status code

\* Credential caches
VARIABLES
    cr_store,     \* the settings table: ha_url, ha_token, gemini_api_key ("": no row)
    cr_env,       \* the environment and the token file
    cr_camera,    \* an HACamera: _credentials_loaded, _cached_url, _cached_token
    cr_analyzer,  \* a SpotAnalyzer: _api_key_loaded, _cached_api_key
    cr_reads,     \* reads of the settings table by each object since its last invalidation
    cr_last       \* the last use of an object and the credentials it got

\* Reset requests and their rewards
VARIABLES
    rw_spot,    \* the spot's row: status and reset counters
    rw_checks,  \* the statuses of the spot's saved checks, in id order
    rw_game,    \* the gamification row
    rw_today,   \* datetime.utcnow().date()
    rw_resp     \* the answer to the last reset request

\* Complete-daily-challenge requests in flight
VARIABLES
    dc_completed,  \* gamification.daily_challenge_completed
    dc_xp,         \* gamification.xp_total
    dc_today,      \* datetime.utcnow().date()
    dc_req         \* each request: where it is, what it read, what it answered

\* record_reset calls in flight on one spot
VARIABLES
    rr_spot,           \* the spot's row: current_streak, longest_streak, total_resets
    rr_before,         \* the row before the first call
    rr_req,            \* each call: where it is and the row it read
    rr_streak_resets   \* how many times the streak was set back to 0

dbVars == <<spots, nextSpotId, checks, nextCheckId, now, foreign_keys, resp>>
haVars == <<ha_token, ha_method, ha_pc, ha_attempt, ha_log, ha_backoffs, ha_result>>
anVars == <<an_call, an_result>>
memVars == <<mem_checks, mem_now, mem_recurring>>
tokVars == <<tokens, nextTokenId, tok_revoked, tok_answer>>
schedVars == <<jobs, cron_validates, sched_running, sched_call, sched_fired>>
dreamVars == <<dream_state_generating, dream_state_image, total_checks, dream_tasks, dream_last, dream_skipped>>
genVars == <<gen_pc, gen_keys, gen_providers, gen_idx, gen_attempt, gen_log, gen_result>>
prVars == <<pr_reply, pr_result>>
dayVars == <<day_checks, day_best, day_worst>>
xpVars == <<xp_total, lv_result, xa_call, xa_earned>>
cmVars == <<cm_camera_id, cm_adapter>>
ckVars == <<ck_rows, ck_spot_status, ck_last_check, ck_clock, ck_saved, ck_loaded>>
hcVars == <<hc_checks, hc_next_id, hc_clock, hc_spots, hc_xp, hc_op>>
apiVars == <<api_schedule, api_resp>>
crVars == <<cr_store, cr_env, cr_camera, cr_analyzer, cr_reads, cr_last>>
rwVars == <<rw_spot, rw_checks, rw_game, rw_today, rw_resp>>
dcVars == <<dc_completed, dc_xp, dc_today, dc_req>>
rrVars == <<rr_spot, rr_before, rr_req, rr_streak_resets>>

vars == <<dbVars, haVars, anVars, memVars, tokVars, schedVars, dreamVars, genVars, prVars, dayVars, xpVars, cmVars, ckVars, hcVars, apiVars, crVars, rwVars, dcVars, rrVars>>

nonDbVars == <<haVars, anVars, memVars, tokVars, schedVars, dreamVars, genVars, prVars, dayVars, xpVars, cmVars, ckVars, hcVars, apiVars, crVars, rwVars, dcVars, rrVars>>
nonHaVars == <<dbVars, anVars, memVars, tokVars, schedVars, dreamVars, genVars, prVars, dayVars, xpVars, cmVars, ckVars, hcVars, apiVars, crVars, rwVars, dcVars, rrVars>>
nonAnVars == <<dbVars, haVars, memVars, tokVars, schedVars, dreamVars, genVars, prVars, dayVars, xpVars, cmVars, ckVars, hcVars, apiVars, crVars, rwVars, dcVars, rrVars>>
nonMemVars == <<dbVars, haVars, anVars, tokVars, schedVars, dreamVars, genVars, prVars, dayVars, xpVars, cmVars, ckVars, hcVars, apiVars, crVars, rwVars, dcVars, rrVars>>
nonTokVars == <<dbVars, haVars, anVars, memVars, schedVars, dreamVars, genVars, prVars, dayVars, xpVars, cmVars, ckVars, hcVars, apiVars, crVars, rwVars, dcVars, rrVars>>
nonSchedVars == <<dbVars, haVars, anVars, memVars, tokVars, dreamVars, genVars, prVars, dayVars, xpVars, cmVars, ckVars, hcVars, apiVars, crVars, rwVars, dcVars, rrVars>>
nonDreamVars == <<dbVars, haVars, anVars, memVars, tokVars, schedVars, genVars, prVars, dayVars, xpVars, cmVars, ckVars, hcVars, apiVars, crVars, rwVars, dcVars, rrVars>>
nonGenVars == <<dbVars, haVars, anVars, memVars, tokVars, schedVars, dreamVars, prVars, dayVars, xpVars, cmVars, ckVars, hcVars, apiVars, crVars, rwVars, dcVars, rrVars>>
nonPrVars == <<dbVars, haVars, anVars, memVars, tokVars, schedVars, dreamVars, genVars, dayVars, xpVars, cmVars, ckVars, hcVars, apiVars, crVars, rwVars, dcVars, rrVars>>
nonDayVars == <<dbVars, haVars, anVars, memVars, tokVars, schedVars, dreamVars, genVars, prVars, xpVars, cmVars, ckVars, hcVars, apiVars, crVars, rwVars, dcVars, rrVars>>
nonXpVars == <<dbVars, haVars, anVars, memVars, tokVars, schedVars, dreamVars, genVars, prVars, dayVars, cmVars, ckVars, hcVars, apiVars, crVars, rwVars, dcVars, rrVars>>
nonCmVars == <<dbVars, haVars, anVars, memVars, tokVars, schedVars, dreamVars, genVars, prVars, dayVars, xpVars, ckVars, hcVars, apiVars, crVars, rwVars, dcVars, rrVars>>
nonCkVars == <<dbVars, haVars, anVars, memVars, tokVars, schedVars, dreamVars, genVars, prVars, dayVars, xpVars, cmVars, hcVars, apiVars, crVars, rwVars, dcVars, rrVars>>
nonHcVars == <<dbVars, haVars, anVars, memVars, tokVars, schedVars, dreamVars, genVars, prVars, dayVars, xpVars, cmVars, ckVars, apiVars, crVars, rwVars, dcVars, rrVars>>
nonApiVars == <<dbVars, haVars, anVars, memVars, tokVars, schedVars, dreamVars, genVars, prVars, dayVars, xpVars, cmVars, ckVars, hcVars, crVars, rwVars, dcVars, rrVars>>
nonCrVars == <<dbVars, haVars, anVars, memVars, tokVars, schedVars, dreamVars, genVars, prVars, dayVars, xpVars, cmVars, ckVars, hcVars, apiVars, rwVars, dcVars, rrVars>>
nonRwVars == <<dbVars, haVars, anVars, memVars, tokVars, schedVars, dreamVars, genVars, prVars, dayVars, xpVars, cmVars, ckVars, hcVars, apiVars, crVars, dcVars, rrVars>>
nonDcVars == <<dbVars, haVars, anVars, memVars, tokVars, schedVars, dreamVars, genVars, prVars, dayVars, xpVars, cmVars, ckVars, hcVars, apiVars, crVars, rwVars, rrVars>>
nonRrVars == <<dbVars, haVars, anVars, memVars, tokVars, schedVars, dreamVars, genVars, prVars, dayVars, xpVars, cmVars, ckVars, hcVars, apiVars, crVars, rwVars, dcVars>>

(***************************************************************************)
(* Bounds of the model.                                                    *)
(***************************************************************************)
MaxSpots == 2
MaxChecks == 1
MaxStreak == 2
MaxClock == 1
MaxSnooze == 1
MaxItems == 2

\* SQL NULL / Python None in an integer column.
Null == -1

SpotIds == 1..MaxSpots

Max(a, b) == IF a >= b THEN a ELSE b

(***************************************************************************)
(* Rows.                                                                   *)
(***************************************************************************)
\* No row with this id in the spots table.
NoSpot ==
    [present |-> FALSE, status |-> "unknown", current_streak |-> 0,
     longest_streak |-> 0, snoozed_until |-> Null]

\* Database.create_spot: the INSERT and the column defaults.
NewSpot ==
    [present |-> TRUE, status |-> "unknown", current_streak |-> 0,
     longest_streak |-> 0, snoozed_until |-> Null]

\* The database a handler works on, threaded through its calls.
DB == [spots |-> spots, checks |-> checks, nextCheckId |-> nextCheckId]

\* Database.get_spot: the row, or None.
GetSpot(db, id) == IF id \in SpotIds THEN db.spots[id] ELSE NoSpot

\* Database.update_spot: UPDATE spots SET <upd> WHERE id = ?
UpdateSpot(db, id, upd) ==
    IF GetSpot(db, id).present
    THEN [db EXCEPT !.spots[id] =
            [f \in DOMAIN @ |-> IF f \in DOMAIN upd THEN upd[f] ELSE @[f]]]
    ELSE db

\* Database.save_check: INSERT INTO checks, then the spot takes the status.
SaveCheck(db, spot_id, result, ts) ==
    LET row == [id |-> db.nextCheckId, spot_id |-> spot_id, timestamp |-> ts,
                status |-> result.status, to_sort |-> result.to_sort]
        d1 == [db EXCEPT !.checks = Append(@, row), !.nextCheckId = @ + 1]
    IN UpdateSpot(d1, spot_id, [status |-> result.status])

\* A plausible slip: the longest streak is not raised with the current one.
RecordResetKeepLongest(db, spot_id) ==
    LET spot == GetSpot(db, spot_id) IN
    IF ~spot.present THEN db
    ELSE UpdateSpot(db, spot_id,
            [status |-> "sorted",
             current_streak |-> spot.current_streak + 1,
             longest_streak |-> spot.longest_streak])

\* Database.record_reset.
RecordReset(db, spot_id) ==
    LET spot == GetSpot(db, spot_id)
        new_streak == spot.current_streak + 1
        longest == Max(spot.longest_streak, new_streak)
    IN IF ~spot.present THEN db
       ELSE UpdateSpot(db, spot_id,
               [status |-> "sorted",
                current_streak |-> new_streak,
                longest_streak |-> longest])

\* Database.get_recent_checks(spot_id, limit=1): ORDER BY timestamp DESC.
\* Rows with the same timestamp come in an order SQL does not fix.
LatestChecks(db, spot_id) ==
    LET mine == {i \in 1..Len(db.checks) : db.checks[i].spot_id = spot_id}
    IN {i \in mine : \A j \in mine : db.checks[j].timestamp <= db.checks[i].timestamp}

\* Database.delete_spot: DELETE FROM spots; ON DELETE CASCADE acts only on a
\* connection whose foreign_keys setting is on.
DeleteSpotRow(db, spot_id, fk) ==
    [db EXCEPT !.spots[spot_id] = NoSpot,
               !.checks = IF fk THEN SelectSeq(@, LAMBDA c : c.spot_id # spot_id)
                          ELSE @]

(***************************************************************************)
(* Inputs from the collaborators.                                          *)
(***************************************************************************)
\* One item of a CheckResult's to_sort as the analyzer returns it.
NewItem == [item |-> "mug", priority |-> "high", sorted |-> FALSE]

ToSortLists == UNION {[1..n -> {NewItem}] : n \in 0..MaxItems}

\* SpotAnalyzer.analyze as the handlers see it: a CheckResult.
AnalyzerResults ==
    {[status |-> "needs_attention", to_sort |-> l] : l \in ToSortLists \ {<<>>}}
    \cup {[status |-> "sorted", to_sort |-> <<>>],
          [status |-> "error", to_sort |-> <<>>]}

\* HACamera.get_snapshot (no image bytes: snapshot = FALSE), then the analyzer.
CheckOutcomes ==
    {[snapshot |-> FALSE]}
    \cup {[snapshot |-> TRUE, result |-> r] : r \in AnalyzerResults}

\* routes.py: "If needs_attention, reset streak".
AfterCheck(db, spot_id, result) ==
    IF result.status = "needs_attention"
    THEN UpdateSpot(db, spot_id, [current_streak |-> 0])
    ELSE db

\* A plausible slip: a snooze holds whatever the clock says.
IsSnoozedIgnoringClock(spot, t) == spot.snoozed_until # Null

\* check_all_spots: "Skip snoozed spots".
IsSnoozed(spot, t) == spot.snoozed_until # Null /\ spot.snoozed_until > t

\* check_all_spots: the loop over the spots, in the order of the listing.
\* outcome[s] is what the camera and the analyzer give for spot s.
RECURSIVE CheckAllLoop(_, _, _, _, _)
CheckAllLoop(db, order, outcome, t, results) ==
    IF order = <<>> THEN [db |-> db, results |-> results]
    ELSE
      LET s == Head(order)
          spot == db.spots[s]
          out == outcome[s]
      IN IF IsSnoozed(spot, t)
         THEN CheckAllLoop(db, Tail(order), outcome, t,
                 Append(results, [spot_id |-> s, status |-> "snoozed",
                                  snapshot |-> FALSE, analyzed |-> FALSE]))
         ELSE IF ~out.snapshot
         THEN CheckAllLoop(db, Tail(order), outcome, t,
                 Append(results, [spot_id |-> s, status |-> "error",
                                  snapshot |-> TRUE, analyzed |-> FALSE]))
         ELSE CheckAllLoop(AfterCheck(SaveCheck(db, s, out.result, t), s, out.result),
                 Tail(order), outcome, t,
                 Append(results, [spot_id |-> s, status |-> out.result.status,
                                  snapshot |-> TRUE, analyzed |-> TRUE]))

\* bulk_reset_spots: the loop over the requested ids.
RECURSIVE BulkResetLoop(_, _)
BulkResetLoop(db, ids) ==
    IF ids = <<>> THEN db
    ELSE BulkResetLoop(
            IF GetSpot(db, Head(ids)).present THEN RecordReset(db, Head(ids)) ELSE db,
            Tail(ids))

\* reset_all_needing_attention: the loop over the listed spots.
RECURSIVE ResetNeedingLoop(_, _)
ResetNeedingLoop(db, order) ==
    IF order = <<>> THEN db
    ELSE ResetNeedingLoop(
            IF spots[Head(order)].status = "needs_attention"
            THEN RecordReset(db, Head(order)) ELSE db,
            Tail(order))

\* bulk_snooze_spots: the loop over the requested ids.
RECURSIVE BulkSnoozeLoop(_, _, _)
BulkSnoozeLoop(db, ids, until) ==
    IF ids = <<>> THEN db
    ELSE BulkSnoozeLoop(
            UpdateSpot(db, Head(ids), [snoozed_until |-> until, status |-> "snoozed"]),
            Tail(ids), until)

\* mark_item_sorted: item["sorted"] = True on the indexed item of the check.
MarkSorted(to_sort, idx) == [to_sort EXCEPT ![idx].sorted = TRUE]

\* mark_item_sorted: all(i.get("sorted", False) for i in to_sort)
AllSorted(to_sort) == \A i \in 1..Len(to_sort) : to_sort[i].sorted

\* Database.get_all_spots: the rows ORDER BY name.  Spots are named so that
\* the order of the names is the order of the ids.
RECURSIVE Listing(_)
Listing(from) ==
    IF from > MaxSpots THEN <<>>
    ELSE IF spots[from].present THEN <<from>> \o Listing(from + 1)
    ELSE Listing(from + 1)

\* The ids a bulk request can name.
IdLists == UNION {[1..n -> SpotIds] : n \in 1..MaxSpots}

Commit(db) ==
    /\ spots' = db.spots
    /\ checks' = db.checks
    /\ nextCheckId' = db.nextCheckId

RoomForChecks(n) == nextCheckId + n - 1 <= MaxChecks

WithinBounds(db) == \A s \in SpotIds : db.spots[s].current_streak <= MaxStreak

(***************************************************************************)
(* Handlers.                                                               *)
(***************************************************************************)
\* POST /spots
CreateSpot ==
    /\ nextSpotId <= MaxSpots
    /\ spots' = [spots EXCEPT ![nextSpotId] = NewSpot]
    /\ nextSpotId' = nextSpotId + 1
    /\ resp' = <<>>
    /\ UNCHANGED <<checks, nextCheckId, now, foreign_keys>>
    /\ UNCHANGED nonDbVars

\* DELETE /spots/{id}
DeleteSpot(s) ==
    /\ spots[s].present
    /\ Commit(DeleteSpotRow(DB, s, foreign_keys))
    /\ resp' = <<>>
    /\ UNCHANGED <<nextSpotId, now, foreign_keys>>
    /\ UNCHANGED nonDbVars

\* POST /spots/{id}/check
CheckSpot(s) ==
    /\ spots[s].present
    /\ \/ /\ resp' = <<>>       \* no snapshot (HTTP 500), or the skip mode
          /\ UNCHANGED <<spots, checks, nextCheckId>>
       \/ \E result \in AnalyzerResults :
             /\ RoomForChecks(1)
             /\ Commit(AfterCheck(SaveCheck(DB, s, result, now), s, result))
             /\ resp' = <<>>
    /\ UNCHANGED <<nextSpotId, now, foreign_keys>>
    /\ UNCHANGED nonDbVars

\* main.py run_scheduled_check: the scheduler's callback.
ScheduledCheck(s) ==
    /\ \/ /\ resp' = <<>>
          /\ UNCHANGED <<spots, checks, nextCheckId>>
       \/ \E result \in AnalyzerResults :
             /\ spots[s].present
             /\ RoomForChecks(1)
             /\ Commit(AfterCheck(SaveCheck(DB, s, result, now), s, result))
             /\ resp' = <<>>
    /\ UNCHANGED <<nextSpotId, now, foreign_keys>>
    /\ UNCHANGED nonDbVars

\* POST /spots/{id}/reset
ResetSpot(s) ==
    /\ spots[s].present
    /\ RoomForChecks(1)
    /\ \E result \in AnalyzerResults :
        LET d1 == SaveCheck(DB, s, result, now)
            d2 == IF result.status = "sorted"
                  THEN RecordReset(d1, s)
                  ELSE UpdateSpot(d1, s, [current_streak |-> 0])
        IN /\ WithinBounds(d2)
           /\ Commit(d2)
           /\ resp' = <<>>
    /\ UNCHANGED <<nextSpotId, now, foreign_keys>>
    /\ UNCHANGED nonDbVars

\* POST /spots/{id}/snooze
SnoozeSpot(s) ==
    /\ spots[s].present
    /\ \E minutes \in 1..MaxSnooze :
        /\ Commit(UpdateSpot(DB, s, [snoozed_until |-> now + minutes,
                                     status |-> "snoozed"]))
        /\ resp' = <<>>
    /\ UNCHANGED <<nextSpotId, now, foreign_keys>>
    /\ UNCHANGED nonDbVars

\* A plausible slip: unsnooze clears snoozed_until and leaves the status.
UnsnoozeSpotKeepStatus(s) ==
    /\ spots[s].present
    /\ Commit(UpdateSpot(DB, s, [snoozed_until |-> Null]))
    /\ resp' = <<>>
    /\ UNCHANGED <<nextSpotId, now, foreign_keys>>
    /\ UNCHANGED nonDbVars

\* POST /spots/{id}/unsnooze
UnsnoozeSpot(s) ==
    /\ spots[s].present
    /\ Commit(UpdateSpot(DB, s, [snoozed_until |-> Null, status |-> "unknown"]))
    /\ resp' = <<>>
    /\ UNCHANGED <<nextSpotId, now, foreign_keys>>
    /\ UNCHANGED nonDbVars

\* POST /spots/{id}/check-upload and POST /spots/{id}/upload
CheckSpotWithUpload(s) ==
    /\ spots[s].present
    /\ RoomForChecks(1)
    /\ \E result \in AnalyzerResults :
         /\ Commit(AfterCheck(SaveCheck(DB, s, result, now), s, result))
         /\ resp' = <<>>
    /\ UNCHANGED <<nextSpotId, now, foreign_keys>>
    /\ UNCHANGED nonDbVars

\* POST /check-all
CheckAll ==
    /\ \E outcome \in [{s \in SpotIds : spots[s].present} -> CheckOutcomes] :
         LET r == CheckAllLoop(DB, Listing(1), outcome, now, <<>>) IN
         /\ r.db.nextCheckId - 1 <= MaxChecks
         /\ Commit(r.db)
         /\ resp' = r.results
    /\ UNCHANGED <<nextSpotId, now, foreign_keys>>
    /\ UNCHANGED nonDbVars

\* POST /spots/{id}/mark-item-sorted
MarkItemSorted(s) ==
    /\ spots[s].present
    /\ \E i \in LatestChecks(DB, s) : \E idx \in 1..Len(checks[i].to_sort) :
         LET to_sort == MarkSorted(checks[i].to_sort, idx)
             d1 == [DB EXCEPT !.checks[i].to_sort = to_sort]
             d2 == IF AllSorted(to_sort) THEN RecordReset(d1, s) ELSE d1
         IN /\ WithinBounds(d2)
            /\ Commit(d2)
            /\ resp' = <<>>
    /\ UNCHANGED <<nextSpotId, now, foreign_keys>>
    /\ UNCHANGED nonDbVars

\* POST /bulk/reset
BulkReset ==
    /\ \E ids \in IdLists :
         LET d == BulkResetLoop(DB, ids) IN
         /\ WithinBounds(d)
         /\ Commit(d)
         /\ resp' = <<>>
    /\ UNCHANGED <<nextSpotId, now, foreign_keys>>
    /\ UNCHANGED nonDbVars

\* POST /reset-all-needing-attention
ResetAllNeedingAttention ==
    /\ LET d == ResetNeedingLoop(DB, Listing(1)) IN
         /\ WithinBounds(d)
         /\ Commit(d)
         /\ resp' = <<>>
    /\ UNCHANGED <<nextSpotId, now, foreign_keys>>
    /\ UNCHANGED nonDbVars

\* POST /bulk/snooze
BulkSnooze ==
    /\ \E ids \in IdLists, minutes \in 1..MaxSnooze :
         /\ Commit(BulkSnoozeLoop(DB, ids, now + minutes))
         /\ resp' = <<>>
    /\ UNCHANGED <<nextSpotId, now, foreign_keys>>
    /\ UNCHANGED nonDbVars

\* DELETE /spots/{id}/history
ClearSpotHistory(s) ==
    /\ spots[s].present
    /\ checks' = SelectSeq(checks, LAMBDA c : c.spot_id # s)
    /\ resp' = <<>>
    /\ UNCHANGED <<spots, nextSpotId, nextCheckId, now, foreign_keys>>
    /\ UNCHANGED nonDbVars

\* Time passes.
Tick ==
    /\ now < MaxClock
    /\ now' = now + 1
    /\ UNCHANGED <<spots, nextSpotId, checks, nextCheckId, foreign_keys, resp>>
    /\ UNCHANGED nonDbVars

(***************************************************************************)
(* The home-hub camera adapter: HACamera.                                  *)
(***************************************************************************)
MAX_RETRIES == 3
BASE_BACKOFF_SECONDS == 1

\* What the hub does with one GET /api/camera_proxy/{entity_id}: the request
\* raises, or answers with a status and a body (data: some image bytes).
HubResponses ==
    {[raises |-> e, status |-> 0, data |-> FALSE] :
        e \in {"TimeoutError", "ClientConnectorError", "ClientError"}}
    \cup {[raises |-> "none", status |-> 200, data |-> d] : d \in BOOLEAN}
    \cup {[raises |-> "none", status |-> c, data |-> FALSE] :
            c \in {401, 403, 404, 418, 500, 502, 503}}

\* HACamera._parse_error_response: the error_type of a non-200 status.
ParseErrorResponse(status) ==
    IF status = 401 THEN "auth"
    ELSE IF status = 403 THEN "auth"
    ELSE IF status = 404 THEN "not_found"
    ELSE IF status = 502 \/ status = 503 THEN "offline"
    ELSE IF status >= 500 THEN "server_error"
    ELSE "unknown"

\* HACamera._get_snapshot_once: (data, error).
GetSnapshotOnce(token, response) ==
    IF ~token THEN [data |-> FALSE, error_type |-> "auth"]
    ELSE IF response.raises = "TimeoutError"
    THEN [data |-> FALSE, error_type |-> "timeout"]
    ELSE IF response.raises \in {"ClientConnectorError", "ClientError"}
    THEN [data |-> FALSE, error_type |-> "network"]
    ELSE IF response.status = 200
    THEN IF response.data THEN [data |-> TRUE, error_type |-> "none"]
         ELSE [data |-> FALSE, error_type |-> "offline"]
    ELSE [data |-> FALSE, error_type |-> ParseErrorResponse(response.status)]

\* A plausible slip: only an auth error ends the loop.
NoRetryAuthOnly(error_type) == error_type = "auth"

\* "Don't retry for certain error types".
NoRetry(error_type) == error_type \in {"auth", "not_found"}

\* A plausible slip: a sleep after every failed attempt, the last included.
SleepsAfterEvery(attempt) == attempt < MAX_RETRIES

\* "Exponential backoff": is there a sleep after this attempt.
SleepsAfter(attempt) == attempt < MAX_RETRIES - 1

\* backoff = BASE_BACKOFF_SECONDS * (2 ** attempt)
Backoff(attempt) == BASE_BACKOFF_SECONDS * (2 ^ attempt)

\* What the method hands back: get_snapshot gives the bytes or None,
\* get_snapshot_with_error gives (bytes, None) or (None, last_error).
SnapshotReturn(method, data, error_type) ==
    [data |-> data,
     error_type |-> IF method = "get_snapshot_with_error" /\ ~data
                    THEN error_type ELSE "none"]

HAIdle ==
    /\ ha_method = "none"
    /\ ha_pc = "idle"
    /\ ha_attempt = 0
    /\ ha_log = <<>>
    /\ ha_backoffs = <<>>
    /\ ha_result = [data |-> FALSE, error_type |-> "none"]

\* The call starts: the credentials are read, and without a token it returns.
HACall(method) ==
    /\ ha_pc = "idle"
    /\ ha_method' = method
    /\ ha_attempt' = 0
    /\ ha_log' = <<>>
    /\ ha_backoffs' = <<>>
    /\ IF ~ha_token
       THEN /\ ha_pc' = "done"
            /\ ha_result' = SnapshotReturn(method, FALSE, "auth")
       ELSE /\ ha_pc' = "attempt"
            /\ ha_result' = [data |-> FALSE, error_type |-> "none"]
    /\ UNCHANGED ha_token
    /\ UNCHANGED nonHaVars

\* One turn of `for attempt in range(self.MAX_RETRIES)`.
HAAttempt(response) ==
    /\ ha_pc = "attempt"
    /\ LET r == GetSnapshotOnce(ha_token, response) IN
       /\ ha_log' = Append(ha_log, r)
       /\ IF r.data
          THEN /\ ha_pc' = "done"
               /\ ha_result' = SnapshotReturn(ha_method, TRUE, "none")
               /\ UNCHANGED <<ha_attempt, ha_backoffs>>
          ELSE IF NoRetry(r.error_type)
          THEN /\ ha_pc' = "done"
               /\ ha_result' = SnapshotReturn(ha_method, FALSE, r.error_type)
               /\ UNCHANGED <<ha_attempt, ha_backoffs>>
          ELSE /\ ha_backoffs' = IF SleepsAfter(ha_attempt)
                                 THEN Append(ha_backoffs, Backoff(ha_attempt))
                                 ELSE ha_backoffs
               /\ IF ha_attempt + 1 < MAX_RETRIES
                  THEN /\ ha_attempt' = ha_attempt + 1
                       /\ ha_pc' = "attempt"
                       /\ UNCHANGED ha_result
                  ELSE /\ ha_pc' = "done"
                       /\ ha_result' = SnapshotReturn(ha_method, FALSE, r.error_type)
                       /\ UNCHANGED ha_attempt
    /\ UNCHANGED <<ha_token, ha_method>>
    /\ UNCHANGED nonHaVars

\* The caller has the result; the adapter is ready for the next call.
HAReturn ==
    /\ ha_pc = "done"
    /\ ha_pc' = "idle"
    /\ UNCHANGED <<ha_token, ha_method, ha_attempt, ha_log, ha_backoffs, ha_result>>
    /\ UNCHANGED nonHaVars

(***************************************************************************)
(* The vision analyzer: SpotAnalyzer.                                      *)
(***************************************************************************)
MaxElapsed == 1

\* SpotAnalyzer._get_api_key: the configured key, else GEMINI_API_KEY, else "".
GetApiKey(config_key, env_key) == IF config_key # "" THEN config_key ELSE env_key

\* CheckResult(status=..., api_response_time=...); None is Null.
AnCheckResult(status, api_response_time) ==
    [status |-> status, api_response_time |-> api_response_time]

\* The JSON documents the API can answer with (HTTP 200).
GeminiBodies ==
    {[candidates |-> FALSE, parts |-> FALSE, text |-> "none", status |-> "none", valid |-> FALSE],
     [candidates |-> TRUE, parts |-> FALSE, text |-> "none", status |-> "none", valid |-> FALSE],
     [candidates |-> TRUE, parts |-> TRUE, text |-> "not_json", status |-> "none", valid |-> FALSE],
     [candidates |-> TRUE, parts |-> TRUE, text |-> "array", status |-> "none", valid |-> FALSE]}
    \cup {[candidates |-> TRUE, parts |-> TRUE, text |-> "object", status |-> s, valid |-> v] :
            s \in {"sorted", "needs_attention", "messy", "missing"}, v \in BOOLEAN}

NoBody == [candidates |-> FALSE, parts |-> FALSE, text |-> "none", status |-> "none", valid |-> FALSE]

\* What session.post and response.json() can do.
GeminiReplies ==
    {[raises |-> e, status |-> 0, json |-> FALSE, body |-> NoBody] :
        e \in {"ClientError", "TimeoutError"}}
    \cup {[raises |-> "none", status |-> c, json |-> FALSE, body |-> NoBody] :
            c \in {400, 429, 500}}
    \cup {[raises |-> "none", status |-> 200, json |-> FALSE, body |-> NoBody]}
    \cup {[raises |-> "none", status |-> 200, json |-> TRUE, body |-> b] : b \in GeminiBodies}

\* "if status not in ('sorted', 'needs_attention'): status = 'needs_attention'"
CoerceStatus(status) ==
    IF status \in {"sorted", "needs_attention"} THEN status ELSE "needs_attention"

\* SpotAnalyzer._parse_response_legacy: result_data.get on a JSON array raises.
ParseResponseLegacy(body) ==
    IF body.text = "array"
    THEN [exc |-> "AttributeError", result |-> AnCheckResult("error", Null)]
    ELSE [exc |-> "none",
          result |-> AnCheckResult(CoerceStatus(body.status), Null)]

\* SpotAnalyzer._parse_response: exc is the exception that leaves it.
ParseResponse(body) ==
    IF ~body.candidates THEN [exc |-> "none", result |-> AnCheckResult("error", Null)]
    ELSE IF ~body.parts THEN [exc |-> "none", result |-> AnCheckResult("error", Null)]
    ELSE IF body.text = "not_json"
    THEN [exc |-> "none", result |-> AnCheckResult("error", Null)]
    ELSE IF body.text = "object" /\ body.valid /\ body.status # "missing"
    THEN [exc |-> "none", result |-> AnCheckResult(CoerceStatus(body.status), Null)]
    ELSE ParseResponseLegacy(body)

\* A plausible slip: the parsed result keeps the time its constructor gave it.
KeepTime(result, elapsed) == result

\* "result.api_response_time = elapsed"
StampTime(result, elapsed) == [result EXCEPT !.api_response_time = elapsed]

\* The body of analyze's try block: the request and the parsing.
\* requests counts the POSTs sent; exc is the exception that leaves the block.
AnalyzeTry(call) ==
    IF call.prepare_raises
    THEN [exc |-> "ValueError", requests |-> 0, result |-> AnCheckResult("error", Null)]
    ELSE IF call.reply.raises # "none"
    THEN [exc |-> call.reply.raises, requests |-> 1,
          result |-> AnCheckResult("error", Null)]
    ELSE IF call.reply.status = 429
    THEN [exc |-> "none", requests |-> 1,
          result |-> AnCheckResult("error", call.elapsed)]
    ELSE IF call.reply.status # 200
    THEN [exc |-> "none", requests |-> 1,
          result |-> AnCheckResult("error", call.elapsed)]
    ELSE IF ~call.reply.json
    THEN [exc |-> "ClientError", requests |-> 1,
          result |-> AnCheckResult("error", Null)]
    ELSE LET parsed == ParseResponse(call.reply.body) IN
         IF parsed.exc # "none"
         THEN [exc |-> parsed.exc, requests |-> 1, result |-> parsed.result]
         ELSE [exc |-> "none", requests |-> 1,
               result |-> StampTime(parsed.result, call.elapsed)]

\* SpotAnalyzer.analyze.  raised: does an exception leave analyze.
Analyze(call) ==
    LET api_key == GetApiKey(call.config_key, call.env_key) IN
    IF api_key = ""
    THEN [raised |-> FALSE, requests |-> 0, result |-> AnCheckResult("error", Null)]
    ELSE LET try == AnalyzeTry(call) IN
         IF try.exc = "none"
         THEN [raised |-> FALSE, requests |-> try.requests, result |-> try.result]
         ELSE IF try.exc = "ClientError"
         THEN [raised |-> FALSE, requests |-> try.requests,
               result |-> AnCheckResult("error", call.elapsed_at_except)]
         ELSE IF try.exc \in {"TimeoutError", "AttributeError", "ValueError"}
         THEN [raised |-> FALSE, requests |-> try.requests,
               result |-> AnCheckResult("error", call.elapsed_at_except)]
         ELSE [raised |-> TRUE, requests |-> try.requests, result |-> try.result]

\* The calls: the stored and the environment key, whether building the
\* prompt raises, the reply, and the seconds time.time() has advanced when the
\* reply arrives and when an except clause runs.
AnalyzerCalls ==
    [config_key : {"", "k1"}, env_key : {"", "k2"}, prepare_raises : BOOLEAN,
     reply : GeminiReplies, elapsed : 0..MaxElapsed, elapsed_at_except : 0..MaxElapsed]

AnIdle ==
    /\ an_call = [made |-> FALSE]
    /\ an_result = [made |-> FALSE]

\* await analyzer.analyze(...)
AnalyzeCall(call) ==
    /\ an_call' = call
    /\ an_result' = Analyze(call)
    /\ UNCHANGED nonAnVars

(***************************************************************************)
(* The memory engine: MemoryEngine, Database.get_spot_memory.              *)
(***************************************************************************)
RECURRING_THRESHOLD == 3
MEMORY_RETENTION_DAYS == 30

MaxMemChecks == 3
MaxMemItems == 2
MemStep == 30
MaxMemClock == 60

\* Item names as the analyzer may spell them: strings of characters.
RawNames == {<<"M">>, <<"m", " ">>, <<" ">>, <<"k">>}

\* str.lower(), character by character.
LowerChar(ch) == IF ch = "M" THEN "m" ELSE IF ch = "K" THEN "k" ELSE ch

Lower(name) == [i \in 1..Len(name) |-> LowerChar(name[i])]

\* str.strip(): the white space at both ends goes.
RECURSIVE LStrip(_)
LStrip(name) ==
    IF name # <<>> /\ Head(name) = " " THEN LStrip(Tail(name)) ELSE name

RECURSIVE RStrip(_)
RStrip(name) ==
    IF name # <<>> /\ name[Len(name)] = " "
    THEN RStrip(SubSeq(name, 1, Len(name) - 1))
    ELSE name

Strip(name) == RStrip(LStrip(name))

\* item.get("item", "").lower().strip()
ItemName(raw) == Strip(Lower(raw))

\* counter[item_name] += 1
CounterAdd(counter, name) ==
    IF name \in DOMAIN counter
    THEN [counter EXCEPT ![name] = @ + 1]
    ELSE [n \in DOMAIN counter \cup {name} |->
            IF n = name THEN 1 ELSE counter[n]]

\* "for item in to_sort": the non-empty names are counted.
RECURSIVE CountToSort(_, _)
CountToSort(counter, to_sort) ==
    IF to_sort = <<>> THEN counter
    ELSE CountToSort(
            IF ItemName(Head(to_sort)) # <<>>
            THEN CounterAdd(counter, ItemName(Head(to_sort)))
            ELSE counter,
            Tail(to_sort))

\* "for check in checks"
RECURSIVE CountChecks(_, _)
CountChecks(counter, cs) ==
    IF cs = <<>> THEN counter
    ELSE CountChecks(CountToSort(counter, Head(cs).to_sort), Tail(cs))

\* A plausible slip: two appearances are enough.
IsRecurringAtTwo(count) == count >= 2

\* "if count >= RECURRING_THRESHOLD"
IsRecurring(count) == count >= RECURRING_THRESHOLD

\* MemoryEngine._count_recurring_items
CountRecurringItems(cs) ==
    LET counter == CountChecks(<<>>, cs)
    IN [n \in {m \in DOMAIN counter : IsRecurring(counter[m])} |-> counter[n]]

\* Database.get_checks_since: WHERE timestamp >= since
GetChecksSince(cs, since) == SelectSeq(cs, LAMBDA c : c.timestamp >= since)

\* Database.get_spot_memory: the checks of the last 30 days, then the engine.
GetSpotMemory(cs, t) ==
    CountRecurringItems(GetChecksSince(cs, t - MEMORY_RETENTION_DAYS))

MemToSortLists == UNION {[1..n -> RawNames] : n \in 0..MaxMemItems}

MemIdle ==
    /\ mem_checks = <<>>
    /\ mem_now = 0
    /\ mem_recurring = <<>>

\* A check of the spot: the memory is computed for the prompt, then the
\* analyzer's result is saved with the current time.
MemCheck(to_sort) ==
    /\ Len(mem_checks) < MaxMemChecks
    /\ mem_recurring' = GetSpotMemory(mem_checks, mem_now)
    /\ mem_checks' = Append(mem_checks, [timestamp |-> mem_now, to_sort |-> to_sort])
    /\ UNCHANGED mem_now
    /\ UNCHANGED nonMemVars

\* GET /spots/{id}: the memory is computed for the answer.
MemGetSpot ==
    /\ mem_recurring' = GetSpotMemory(mem_checks, mem_now)
    /\ UNCHANGED <<mem_checks, mem_now>>
    /\ UNCHANGED nonMemVars

\* Days pass.
MemTick ==
    /\ mem_now + MemStep <= MaxMemClock
    /\ mem_now' = mem_now + MemStep
    /\ UNCHANGED <<mem_checks, mem_recurring>>
    /\ UNCHANGED nonMemVars

(***************************************************************************)
(* API tokens: Database.create_api_token, verify, revoke, delete.          *)
(***************************************************************************)
MaxTokens == 3

TokenIds == 1..MaxTokens

\* The strings a caller can present: the issued ones and one never issued.
TokenStrings == 0..MaxTokens

NoToken == [present |-> FALSE, token |-> 0, is_active |-> FALSE, last_used |-> FALSE]

\* secrets.token_urlsafe(32): 256 random bits, a string never issued before.
FreshToken(id) == id

\* INSERT INTO api_tokens (token, name, created_at, is_active) VALUES (?, ?, ?, 1)
InsertToken(rows, id) ==
    [rows EXCEPT ![id] = [present |-> TRUE, token |-> FreshToken(id),
                          is_active |-> TRUE, last_used |-> FALSE]]

\* SELECT id, is_active FROM api_tokens WHERE token = ?
TokenRows(rows, token) == {i \in TokenIds : rows[i].present /\ rows[i].token = token}

\* A plausible slip: a row with the token is enough.
VerifyIgnoringActive(rows, token) == TokenRows(rows, token) # {}

\* Database.verify_api_token: its answer.
VerifyResult(rows, token) ==
    \E i \in TokenRows(rows, token) : rows[i].is_active

\* UPDATE api_tokens SET is_active = 0 WHERE id = ?
RevokeRow(rows, id) ==
    IF id \in TokenIds /\ rows[id].present
    THEN [rows EXCEPT ![id].is_active = FALSE]
    ELSE rows

TokIdle ==
    /\ tokens = [i \in TokenIds |-> NoToken]
    /\ nextTokenId = 1
    /\ tok_revoked = {}
    /\ tok_answer = FALSE

\* Database.create_api_token
CreateApiToken ==
    /\ nextTokenId <= MaxTokens
    /\ tokens' = InsertToken(tokens, nextTokenId)
    /\ nextTokenId' = nextTokenId + 1
    /\ tok_answer' = TRUE
    /\ UNCHANGED tok_revoked
    /\ UNCHANGED nonTokVars

\* Database.verify_api_token: a valid token gets its last_used stamped.
VerifyApiToken(token) ==
    /\ tok_answer' = VerifyResult(tokens, token)
    /\ tokens' = IF VerifyResult(tokens, token)
                 THEN [i \in TokenIds |->
                         IF i \in TokenRows(tokens, token)
                         THEN [tokens[i] EXCEPT !.last_used = TRUE]
                         ELSE tokens[i]]
                 ELSE tokens
    /\ UNCHANGED <<nextTokenId, tok_revoked>>
    /\ UNCHANGED nonTokVars

\* Database.revoke_api_token: True when a row had the id.
RevokeApiToken(id) ==
    /\ tokens' = RevokeRow(tokens, id)
    /\ tok_answer' = tokens[id].present
    /\ tok_revoked' = IF tokens[id].present
                      THEN tok_revoked \cup {tokens[id].token}
                      ELSE tok_revoked
    /\ UNCHANGED nextTokenId
    /\ UNCHANGED nonTokVars

\* Database.delete_api_token: True when a row had the id.
DeleteApiToken(id) ==
    /\ tokens' = [tokens EXCEPT ![id] = NoToken]
    /\ tok_answer' = tokens[id].present
    /\ UNCHANGED <<nextTokenId, tok_revoked>>
    /\ UNCHANGED nonTokVars

(***************************************************************************)
(* The scheduler wrapper: SpotScheduler.                                   *)
(***************************************************************************)
MaxEntries == 2

\* DAY_TO_CRON
DayToCron(d) ==
    CASE d = "mon" -> 0 [] d = "tue" -> 1 [] d = "wed" -> 2 [] d = "thu" -> 3
      [] d = "fri" -> 4 [] d = "sat" -> 5 [] d = "sun" -> 6

DayNames == {"mon", "tue", "wed", "thu", "fri", "sat", "sun"}

\* d.lower() on the day strings the model uses.
LowerDay(d) == IF d = "TUE" THEN "tue" ELSE d

\* time_str.split(":"): each part is a decimal number or is not.
Num(n) == [int |-> TRUE, value |-> n]
NotNum == [int |-> FALSE, value |-> 0]

\* "09:00", "25:00" and "soon".
TimeStrings == {<<Num(9), Num(0)>>, <<Num(25), Num(0)>>, <<NotNum>>}

DayLists == {<<>>, <<"mon">>, <<"funday">>, <<"TUE", "funday">>}

ScheduleItems == [time : TimeStrings, days : DayLists]

Schedules == UNION {[1..n -> ScheduleItems] : n \in 0..MaxEntries}

\* "Parse time": int(parts[0]), int(parts[1]) if len(parts) > 1 else 0;
\* ok is FALSE where the code catches ValueError or IndexError.
ParseTime(parts) ==
    IF ~parts[1].int THEN [ok |-> FALSE, hour |-> 0, minute |-> 0]
    ELSE IF Len(parts) > 1 /\ ~parts[2].int THEN [ok |-> FALSE, hour |-> 0, minute |-> 0]
    ELSE [ok |-> TRUE, hour |-> parts[1].value,
          minute |-> IF Len(parts) > 1 THEN parts[2].value ELSE 0]

\* valid_days = [str(DAY_TO_CRON[d.lower()]) for d in days if d.lower() in DAY_TO_CRON]
RECURSIVE ValidDays(_)
ValidDays(days) ==
    IF days = <<>> THEN <<>>
    ELSE IF LowerDay(Head(days)) \in DayNames
    THEN <<DayToCron(LowerDay(Head(days)))>> \o ValidDays(Tail(days))
    ELSE ValidDays(Tail(days))

\* CronTrigger(hour=, minute=, day_of_week=): a library that checks the
\* ranges of its fields raises ValueError for an hour or a minute outside them.
CronTriggerRaises(validates, hour, minute) ==
    validates /\ ~(hour \in 0..23 /\ minute \in 0..59)

\* job_id = f"spot_{spot_id}_schedule_{idx}"
JobId(job) == <<job.spot_id, job.idx>>

\* scheduler.add_job(..., id=job_id, replace_existing=True)
AddJob(js, job) == {j \in js : JobId(j) # JobId(job)} \cup {job}

\* SpotScheduler._remove_jobs_for_spot
RemoveJobsForSpot(js, spot_id) == {j \in js : j.spot_id # spot_id}

\* SpotScheduler._add_jobs_for_spot, from the n-th item on (enumerate's idx
\* is n - 1).  raised: a ValueError of CronTrigger leaves the method.
RECURSIVE AddJobsForSpot(_, _, _, _, _)
AddJobsForSpot(js, spot_id, schedule, n, validates) ==
    IF n > Len(schedule) THEN [jobs |-> js, raised |-> FALSE]
    ELSE
      LET item == schedule[n]
          t == ParseTime(item.time)
          valid_days == ValidDays(item.days)
      IN IF item.days = <<>>
         THEN AddJobsForSpot(js, spot_id, schedule, n + 1, validates)
         ELSE IF ~t.ok
         THEN AddJobsForSpot(js, spot_id, schedule, n + 1, validates)
         ELSE IF valid_days = <<>>
         THEN AddJobsForSpot(js, spot_id, schedule, n + 1, validates)
         ELSE IF CronTriggerRaises(validates, t.hour, t.minute)
         THEN [jobs |-> js, raised |-> TRUE]
         ELSE AddJobsForSpot(
                 AddJob(js, [spot_id |-> spot_id, idx |-> n - 1, hour |-> t.hour,
                             minute |-> t.minute, day_of_week |-> valid_days]),
                 spot_id, schedule, n + 1, validates)

\* SpotScheduler.start: the stored schedule of every spot is loaded.
RECURSIVE LoadSchedules(_, _, _, _)
LoadSchedules(js, stored, spot_id, validates) ==
    IF spot_id > MaxSpots THEN [jobs |-> js, raised |-> FALSE]
    ELSE IF stored[spot_id] = <<>>
    THEN LoadSchedules(js, stored, spot_id + 1, validates)
    ELSE LET r == AddJobsForSpot(js, spot_id, stored[spot_id], 1, validates)
         IN IF r.raised THEN r
            ELSE LoadSchedules(r.jobs, stored, spot_id + 1, validates)

\* What the injected callback (run_scheduled_check) can do.
CallbackOutcomes == {"checked", "spot_missing", "snapshot_failed", "raises"}

\* A plausible slip: the callback is awaited outside any try.
CaughtNever(outcome) == FALSE

\* _run_spot_check: "except Exception" around the callback.
Caught(outcome) == outcome = "raises"

NoCall == [made |-> FALSE]
NoRun == [made |-> FALSE]

SchedIdle ==
    /\ jobs = {}
    /\ cron_validates = TRUE
    /\ sched_running = FALSE
    /\ sched_call = NoCall
    /\ sched_fired = NoRun

\* SpotScheduler.update_spot_schedule
UpdateSpotSchedule(spot_id, schedule) ==
    /\ LET removed == RemoveJobsForSpot(jobs, spot_id)
           r == IF schedule # <<>>
                THEN AddJobsForSpot(removed, spot_id, schedule, 1, cron_validates)
                ELSE [jobs |-> removed, raised |-> FALSE]
       IN /\ jobs' = r.jobs
          /\ sched_call' = [made |-> TRUE, spot_id |-> spot_id,
                            schedule |-> schedule, raised |-> r.raised]
    /\ UNCHANGED <<cron_validates, sched_running, sched_fired>>
    /\ UNCHANGED nonSchedVars

\* SpotScheduler.clear_spot_schedule
ClearSpotSchedule(spot_id) ==
    /\ jobs' = RemoveJobsForSpot(jobs, spot_id)
    /\ sched_call' = [made |-> TRUE, spot_id |-> spot_id,
                      schedule |-> <<>>, raised |-> FALSE]
    /\ UNCHANGED <<cron_validates, sched_running, sched_fired>>
    /\ UNCHANGED nonSchedVars

\* SpotScheduler.start, as lifespan calls it with run_scheduled_check.
SchedulerStart(stored) ==
    /\ ~sched_running
    /\ jobs = {}
    /\ LET r == LoadSchedules(jobs, stored, 1, cron_validates)
       IN /\ jobs' = r.jobs
          /\ sched_running' = ~r.raised
    /\ UNCHANGED <<cron_validates, sched_call, sched_fired>>
    /\ UNCHANGED nonSchedVars

\* A job's trigger fires: the library runs _run_spot_check(spot_id).
FireJob(job, outcome) ==
    /\ sched_running
    /\ job \in jobs
    /\ sched_fired' = [made |-> TRUE, job |-> job, called_with |-> job.spot_id,
                       outcome |-> outcome,
                       raised |-> outcome = "raises" /\ ~Caught(outcome)]
    /\ UNCHANGED <<jobs, cron_validates, sched_running, sched_call>>
    /\ UNCHANGED nonSchedVars

(***************************************************************************)
(* Dream state generation and the dream_state_generating flag.             *)
(***************************************************************************)
MaxTasks == 2

TaskIds == 1..MaxTasks

\* No generation in this slot.
FreeTask == [pc |-> "free", spot_id |-> 0, trigger |-> "none"]

\* DreamStateGenerator.generate_dream_state returns (path, None) or
\* (None, error_msg), or an exception leaves it.
GenerationOutcomes == {"image", "all_failed", "raised"}

\* A plausible slip: the except branch logs and leaves the flag alone.
FlagAfterKeptOnRaise(flag, outcome) == IF outcome = "raised" THEN flag ELSE FALSE

\* The flag each of the three branches writes when the generation is over.
FlagAfter(flag, outcome) ==
    CASE outcome = "image" -> FALSE
      [] outcome = "all_failed" -> FALSE
      [] outcome = "raised" -> FALSE

\* A plausible slip: the trigger does not look at the flag.
AlreadyGeneratingNever(flag) == FALSE

\* "if spot.dream_state_generating": the flag of the row the trigger read.
AlreadyGenerating(flag) == flag

DreamIdle ==
    /\ dream_state_generating = [s \in SpotIds |-> FALSE]
    /\ dream_state_image = [s \in SpotIds |-> FALSE]
    /\ total_checks = [s \in SpotIds |-> 0]
    /\ dream_tasks = [t \in TaskIds |-> FreeTask]
    /\ dream_last = [s \in SpotIds |-> "none"]
    /\ dream_skipped = 0

\* check_spot on a spot's first check: the background task is created, the
\* flag is written by the task itself.
FirstCheck(s, t) ==
    /\ total_checks[s] = 0
    /\ total_checks' = [total_checks EXCEPT ![s] = 1]
    /\ IF ~dream_state_image[s] /\ ~AlreadyGenerating(dream_state_generating[s])
       THEN /\ dream_tasks[t] = FreeTask
            /\ dream_tasks' = [dream_tasks EXCEPT ![t] =
                   [pc |-> "created", spot_id |-> s, trigger |-> "first_check"]]
       ELSE UNCHANGED dream_tasks
    /\ UNCHANGED <<dream_state_generating, dream_state_image, dream_last>>
    /\ UNCHANGED dream_skipped
    /\ UNCHANGED nonDreamVars

\* The first line of check_spot's generate_dream_state_background.
BackgroundSetsFlag(t) ==
    /\ dream_tasks[t].pc = "created"
    /\ dream_state_generating' =
          [dream_state_generating EXCEPT ![dream_tasks[t].spot_id] = TRUE]
    /\ dream_tasks' = [dream_tasks EXCEPT ![t].pc = "generating"]
    /\ UNCHANGED <<dream_state_image, total_checks, dream_last>>
    /\ UNCHANGED dream_skipped
    /\ UNCHANGED nonDreamVars

\* upload_initial_photo with an acceptable image, up to its await of
\* image.read(): the spot row is read, and a row that says "generating" ends
\* the request with the answer "generating" (the trigger is skipped).
UploadInitialPhoto(s, t) ==
    /\ IF AlreadyGenerating(dream_state_generating[s])
       THEN /\ dream_skipped' = s
            /\ UNCHANGED dream_tasks
       ELSE /\ dream_tasks[t] = FreeTask
            /\ dream_tasks' = [dream_tasks EXCEPT ![t] =
                   [pc |-> "uploaded", spot_id |-> s, trigger |-> "upload"]]
            /\ dream_skipped' = 0
    /\ UNCHANGED <<dream_state_generating, dream_state_image, total_checks, dream_last>>
    /\ UNCHANGED nonDreamVars

\* upload_initial_photo after the image is read: the flag is written and the
\* background task created.
UploadMarksGenerating(t) ==
    /\ dream_tasks[t].pc = "uploaded"
    /\ dream_state_generating' =
          [dream_state_generating EXCEPT ![dream_tasks[t].spot_id] = TRUE]
    /\ dream_tasks' = [dream_tasks EXCEPT ![t].pc = "generating"]
    /\ UNCHANGED <<dream_state_image, total_checks, dream_last>>
    /\ UNCHANGED dream_skipped
    /\ UNCHANGED nonDreamVars

\* generate_dream_state up to its await of camera.get_snapshot: the spot row
\* is read, and a row that says "generating" ends the request.
GenerateDreamState(s, t) ==
    /\ IF AlreadyGenerating(dream_state_generating[s])
       THEN /\ dream_skipped' = s
            /\ UNCHANGED dream_tasks
       ELSE /\ dream_tasks[t] = FreeTask
            /\ dream_tasks' = [dream_tasks EXCEPT ![t] =
                   [pc |-> "snapshot", spot_id |-> s, trigger |-> "generate"]]
            /\ dream_skipped' = 0
    /\ UNCHANGED <<dream_state_generating, dream_state_image, total_checks, dream_last>>
    /\ UNCHANGED nonDreamVars

\* generate_dream_state after the snapshot call: without a snapshot it
\* answers "failed" and writes nothing, with one it writes the flag.
GenerateMarksGenerating(t, snapshot) ==
    /\ dream_tasks[t].pc = "snapshot"
    /\ IF snapshot
       THEN /\ dream_state_generating' =
                  [dream_state_generating EXCEPT ![dream_tasks[t].spot_id] = TRUE]
            /\ dream_tasks' = [dream_tasks EXCEPT ![t].pc = "generating"]
       ELSE /\ dream_tasks' = [dream_tasks EXCEPT ![t] = FreeTask]
            /\ UNCHANGED dream_state_generating
    /\ UNCHANGED <<dream_state_image, total_checks, dream_last>>
    /\ UNCHANGED dream_skipped
    /\ UNCHANGED nonDreamVars

\* The generation is over: the update_spot of the branch taken.
GenerationEnds(t, outcome) ==
    /\ dream_tasks[t].pc = "generating"
    /\ LET s == dream_tasks[t].spot_id
       IN /\ dream_state_generating' = [dream_state_generating EXCEPT
                 ![s] = FlagAfter(dream_state_generating[s], outcome)]
          /\ dream_state_image' = [dream_state_image EXCEPT
                 ![s] = dream_state_image[s] \/ outcome = "image"]
          /\ dream_last' = [dream_last EXCEPT ![s] = outcome]
    /\ dream_tasks' = [dream_tasks EXCEPT ![t] = FreeTask]
    /\ UNCHANGED total_checks
    /\ UNCHANGED dream_skipped
    /\ UNCHANGED nonDreamVars

(***************************************************************************)
(* The dream state generator: DreamStateGenerator.generate_dream_state.    *)
(***************************************************************************)
PROVIDER_ATTEMPTS == 3

ProviderNames == {"Replicate", "Gemini", "Hugging Face"}

\* What one awaited provider_func call, with the validation and saving of
\* its image, comes to: a valid image saved, bytes that are no image, None,
\* ClientResponseError with status 429, with another status, or any other
\* exception.
AttemptOutcomes ==
    {"image", "invalid_image", "no_image", "rate_limited", "http_error", "exception"}

\* A plausible slip: Gemini appended before Replicate.
ProviderListGeminiFirst(keys) ==
    (IF "Gemini" \in keys THEN <<"Gemini">> ELSE <<>>)
    \o (IF "Replicate" \in keys THEN <<"Replicate">> ELSE <<>>)
    \o (IF "Hugging Face" \in keys THEN <<"Hugging Face">> ELSE <<>>)

\* providers.append(...) for each key that is set, in the order of the code.
ProviderList(keys) ==
    (IF "Replicate" \in keys THEN <<"Replicate">> ELSE <<>>)
    \o (IF "Gemini" \in keys THEN <<"Gemini">> ELSE <<>>)
    \o (IF "Hugging Face" \in keys THEN <<"Hugging Face">> ELSE <<>>)

\* The branches of the retry loop that do not break: 429 (sleep, continue)
\* and "returned no image" (falls through to the next attempt).
NextAttemptFollows(outcome) == outcome \in {"rate_limited", "no_image"}

GenUnset == [image_path |-> "unset", error_msg |-> "unset"]

\* return image_path, None
GenSuccess == [image_path |-> "path", error_msg |-> "None"]

\* return None, error_msg
GenFailure == [image_path |-> "None", error_msg |-> "message"]

GenIdle ==
    /\ gen_pc = "idle"
    /\ gen_keys = {}
    /\ gen_providers = <<>>
    /\ gen_idx = 0
    /\ gen_attempt = 0
    /\ gen_log = <<>>
    /\ gen_result = GenUnset

\* generate_dream_state up to the provider loop: the input is validated and
\* the providers list built; a bad input and an empty list end the run.
GenStart(image_ok, keys) ==
    /\ gen_pc = "idle"
    /\ gen_keys' = keys
    /\ IF ~image_ok
       THEN /\ gen_pc' = "done"
            /\ gen_result' = GenFailure
            /\ UNCHANGED <<gen_providers, gen_idx>>
       ELSE /\ gen_providers' = ProviderList(keys)
            /\ IF ProviderList(keys) = <<>>
               THEN gen_pc' = "done" /\ gen_result' = GenFailure /\ gen_idx' = 0
               ELSE gen_pc' = "trying" /\ gen_result' = GenUnset /\ gen_idx' = 1
    /\ UNCHANGED <<gen_attempt, gen_log>>
    /\ UNCHANGED nonGenVars

\* One pass of the retry loop: the provider call and what follows it.
GenAttempt(outcome) ==
    /\ gen_pc = "trying"
    /\ gen_log' = Append(gen_log, [provider |-> gen_providers[gen_idx],
                                   attempt |-> gen_attempt, outcome |-> outcome])
    /\ IF outcome = "image"
       THEN /\ gen_pc' = "done"
            /\ gen_result' = GenSuccess
            /\ UNCHANGED <<gen_idx, gen_attempt>>
       ELSE IF NextAttemptFollows(outcome) /\ gen_attempt + 1 < PROVIDER_ATTEMPTS
       THEN /\ gen_attempt' = gen_attempt + 1
            /\ UNCHANGED <<gen_pc, gen_idx, gen_result>>
       ELSE IF gen_idx < Len(gen_providers)
       THEN /\ gen_idx' = gen_idx + 1
            /\ gen_attempt' = 0
            /\ UNCHANGED <<gen_pc, gen_result>>
       ELSE /\ gen_pc' = "done"
            /\ gen_result' = GenFailure
            /\ UNCHANGED <<gen_idx, gen_attempt>>
    /\ UNCHANGED <<gen_keys, gen_providers>>
    /\ UNCHANGED nonGenVars

(***************************************************************************)
(* The to-sort items of a parsed reply: SpotAnalyzer._parse_response.      *)
(***************************************************************************)
MaxReplyItems == 2

\* JSON values of an item's "priority": no such key, a string, null, a number.
JsonPriorities ==
    {[kind |-> "missing", value |-> ""], [kind |-> "null", value |-> ""],
     [kind |-> "number", value |-> ""]}
    \cup {[kind |-> "string", value |-> v] : v \in {"high", "normal", "low", "urgent", "HIGH"}}

\* The elements of items_out_of_place: an object, with or without "item",
\* or a bare string.
JsonItems ==
    {[kind |-> "dict", has_item |-> h, priority |-> p] : h \in BOOLEAN, p \in JsonPriorities}
    \cup {[kind |-> "string", has_item |-> TRUE, priority |-> [kind |-> "missing", value |-> ""]]}

\* A reply: its items, and whether the rest of the document fits
\* AnalysisResponse.
JsonReplies ==
    [items : UNION {[1..n -> JsonItems] : n \in 0..MaxReplyItems}, rest_valid : BOOLEAN]

\* ToSortItemResponse: item is a required str, priority a str with default.
ItemValidates(it) ==
    /\ it.kind = "dict"
    /\ it.has_item
    /\ it.priority.kind \in {"missing", "string"}

\* AnalysisResponse.model_validate succeeds.
ModelValidates(reply) ==
    /\ reply.rest_valid
    /\ \A i \in 1..Len(reply.items) : ItemValidates(reply.items[i])

\* item.model_dump() of a validated item: priority: str = Field(default="normal").
ModelDump(it) ==
    [item |-> "name",
     priority |-> IF it.priority.kind = "missing" THEN "normal" ELSE it.priority.value]

\* _validate_to_sort on one element: None for one that is dropped.
CleanedItem(it) ==
    IF it.kind = "dict"
    THEN [item |-> IF it.has_item THEN "name" ELSE "Unknown item",
          priority |-> IF it.priority.kind = "string"
                          /\ it.priority.value \in {"high", "normal", "low"}
                       THEN it.priority.value ELSE "normal"]
    ELSE [item |-> "name", priority |-> "normal"]

\* SpotAnalyzer._validate_to_sort
RECURSIVE ValidateToSort(_)
ValidateToSort(items) ==
    IF items = <<>> THEN <<>>
    ELSE <<CleanedItem(Head(items))>> \o ValidateToSort(Tail(items))

\* The to_sort of the CheckResult _parse_response builds from a JSON object.
ParsedToSort(reply) ==
    IF ModelValidates(reply)
    THEN [path |-> "pydantic",
          to_sort |-> [i \in 1..Len(reply.items) |-> ModelDump(reply.items[i])]]
    ELSE [path |-> "legacy", to_sort |-> ValidateToSort(reply.items)]

PrIdle ==
    /\ pr_reply = [items |-> <<>>, rest_valid |-> FALSE]
    /\ pr_result = [path |-> "none", to_sort |-> <<>>]

\* self._parse_response(data) on a reply whose text is a JSON object.
ParseReply(reply) ==
    /\ pr_reply' = reply
    /\ pr_result' = ParsedToSort(reply)
    /\ UNCHANGED nonPrVars

(***************************************************************************)
(* Best and worst day of the memory: MemoryEngine._find_best_day and       *)
(* _find_worst_day.                                                        *)
(***************************************************************************)
MaxDayChecks == 4

\* Timestamps are days since a Monday; -1 is a timestamp that
\* datetime.fromisoformat refuses.
DayTimestamps == {-1, 0, 1, 7}

\* dt.strftime("%A")
Weekday(ts) ==
    CASE ts % 7 = 0 -> "Monday" [] ts % 7 = 1 -> "Tuesday" [] ts % 7 = 2 -> "Wednesday"
      [] ts % 7 = 3 -> "Thursday" [] ts % 7 = 4 -> "Friday" [] ts % 7 = 5 -> "Saturday"
      [] ts % 7 = 6 -> "Sunday"

DayCheckRows == [timestamp : DayTimestamps, status : {"sorted", "needs_attention", "error"}]

\* day_counts[day] += 1 on a Counter, which keeps its keys in the order
\* they were first added.
DayCounterAdd(counter, day) ==
    IF \E i \in 1..Len(counter) : counter[i].day = day
    THEN [i \in 1..Len(counter) |->
            IF counter[i].day = day
            THEN [day |-> day, count |-> counter[i].count + 1] ELSE counter[i]]
    ELSE Append(counter, [day |-> day, count |-> 1])

\* The loop of _find_best_day / _find_worst_day: the checks of the status
\* whose timestamp parses are counted by weekday.
RECURSIVE CountDays(_, _, _)
CountDays(counter, cs, status) ==
    IF cs = <<>> THEN counter
    ELSE CountDays(
            IF Head(cs).status = status /\ Head(cs).timestamp >= 0
            THEN DayCounterAdd(counter, Weekday(Head(cs).timestamp))
            ELSE counter,
            Tail(cs), status)

\* A plausible slip: among equal counts the key added last wins.
MostCommonLastWins(counter) ==
    LET best == CHOOSE i \in 1..Len(counter) :
                   \A j \in 1..Len(counter) :
                      \/ counter[j].count < counter[i].count
                      \/ (counter[j].count = counter[i].count /\ j <= i)
    IN counter[best].day

\* day_counts.most_common(1)[0][0]: the first key with the highest count.
MostCommon(counter) ==
    LET best == CHOOSE i \in 1..Len(counter) :
                   \A j \in 1..Len(counter) :
                      \/ counter[j].count < counter[i].count
                      \/ (counter[j].count = counter[i].count /\ i <= j)
    IN counter[best].day

\* MemoryEngine._find_best_day
FindBestDay(cs) ==
    LET day_counts == CountDays(<<>>, cs, "sorted")
    IN IF day_counts = <<>> THEN "None" ELSE MostCommon(day_counts)

\* MemoryEngine._find_worst_day
FindWorstDay(cs) ==
    LET day_counts == CountDays(<<>>, cs, "needs_attention")
    IN IF day_counts = <<>> THEN "None" ELSE MostCommon(day_counts)

DayIdle ==
    /\ day_checks = <<>>
    /\ day_best = "None"
    /\ day_worst = "None"

\* One more check in the history, and calculate_memory on the history.
CalculateMemory(check) ==
    /\ Len(day_checks) < MaxDayChecks
    /\ day_checks' = Append(day_checks, check)
    /\ day_best' = FindBestDay(Append(day_checks, check))
    /\ day_worst' = FindWorstDay(Append(day_checks, check))
    /\ UNCHANGED nonDayVars

(***************************************************************************)
(* Gamification: calculate_level and calculate_xp_for_action.              *)
(***************************************************************************)
MaxXp == 7800
MaxStreakDays == 11

\* LEVELS: xp_required of level 1..10.
LEVELS == <<0, 250, 600, 1000, 1500, 2200, 3000, 4000, 5500, 7500>>

\* A plausible slip: a level is reached only above its threshold.
LevelReachedAbove(xp, required) == xp > required

\* "if xp_total >= level['xp_required']"
LevelReached(xp, required) == xp >= required

\* The loop of calculate_level from the i-th level on; current and next are
\* positions in LEVELS, next = 0 for None.
RECURSIVE LevelLoop(_, _, _, _)
LevelLoop(xp, i, current, next) ==
    IF i > Len(LEVELS) THEN [current |-> current, next |-> next]
    ELSE IF LevelReached(xp, LEVELS[i])
    THEN LevelLoop(xp, i + 1, i, IF i + 1 <= Len(LEVELS) THEN i + 1 ELSE 0)
    ELSE [current |-> current, next |-> next]

\* calculate_level; xp_progress_percent is kept as the fraction num / den.
CalculateLevel(xp) ==
    LET l == LevelLoop(xp, 1, 1, IF Len(LEVELS) > 1 THEN 2 ELSE 0)
    IN IF l.next = 0
       THEN [level |-> l.current, xp_to_next_level |-> 0,
             xp_progress_percent |-> [num |-> 100, den |-> 1]]
       ELSE LET xp_in_level == xp - LEVELS[l.current]
                xp_for_level == LEVELS[l.next] - LEVELS[l.current]
                progress == IF xp_for_level > 0
                            THEN [num |-> xp_in_level * 100, den |-> xp_for_level]
                            ELSE [num |-> 100, den |-> 1]
            IN [level |-> l.current,
                xp_to_next_level |-> LEVELS[l.next] - xp,
                xp_progress_percent |->
                    IF progress.num > 100 * progress.den
                    THEN [num |-> 100, den |-> 1] ELSE progress]

\* XP_REWARDS.get(action, 0)
XpRewards(action) ==
    CASE action = "sorted" -> 50
      [] action = "quick_reset" -> 75
      [] action = "reset" -> 50
      [] action = "streak_day" -> 25
      [] action = "first_check" -> 100
      [] action = "perfect_day" -> 200
      [] OTHER -> 0

Min(a, b) == IF a < b THEN a ELSE b

\* A plausible slip: the streak bonus is not capped.
StreakBonusUncapped(streak_days) == streak_days * XpRewards("streak_day")

\* min(streak_days * XP_REWARDS["streak_day"], 250)
StreakBonus(streak_days) == Min(streak_days * XpRewards("streak_day"), 250)

\* calculate_xp_for_action; minutes_since_check is Null for None.
CalculateXpForAction(action, streak_days, minutes_since_check) ==
    LET base_xp == XpRewards(action)
        with_streak == IF action = "reset" /\ streak_days > 0
                       THEN base_xp + StreakBonus(streak_days) ELSE base_xp
    IN IF action = "reset" /\ minutes_since_check # Null
       THEN IF minutes_since_check <= 5 THEN with_streak + 50
            ELSE IF minutes_since_check <= 30 THEN with_streak + 25
            ELSE with_streak
       ELSE with_streak

XpActions ==
    {"sorted", "quick_reset", "reset", "streak_day", "first_check", "perfect_day", "dance"}

\* Minutes since the last check: None, and the values around the two limits.
MinutesValues == {Null, 0, 5, 6, 30, 31}

XpIdle ==
    /\ xp_total = 0
    /\ lv_result = CalculateLevel(0)
    /\ xa_call = [made |-> FALSE]
    /\ xa_earned = 0

\* Database.add_xp(amount): the total is raised and the state, with its
\* level, is read back.
AddXp(amount) ==
    /\ xp_total + amount <= MaxXp
    /\ xp_total' = xp_total + amount
    /\ lv_result' = CalculateLevel(xp_total + amount)
    /\ UNCHANGED <<xa_call, xa_earned>>
    /\ UNCHANGED nonXpVars

\* calculate_xp_for_action(action, streak_days, minutes_since_check)
XpForAction(action, streak_days, minutes_since_check) ==
    /\ xa_call' = [made |-> TRUE, action |-> action, streak_days |-> streak_days,
                   minutes_since_check |-> minutes_since_check]
    /\ xa_earned' = CalculateXpForAction(action, streak_days, minutes_since_check)
    /\ UNCHANGED <<xp_total, lv_result>>
    /\ UNCHANGED nonXpVars

(***************************************************************************)
(* The camera manager: CameraManager._get_adapter_for_camera.              *)
(***************************************************************************)
\* Identifiers are strings, kept as sequences of characters: a head from
\* the first set followed by a tail from the second.
IdHeads ==
    {<<>>, <<"c", "a", "m", "e", "r", "a", ".">>, <<"r", "t", "s", "p", "_">>,
     <<"m", "j", "p", "e", "g", "_">>, <<"o", "n", "v", "i", "f", "_">>,
     <<"c", "a", "m", "e", "r", "a">>, <<"r", "t", "s", "p">>,
     <<"C", "A", "M", "E", "R", "A", ".">>, <<"x">>}

IdTails ==
    {<<>>, <<"1">>, <<"a">>, <<"c", "a", "m", "e", "r", "a", ".">>,
     <<"r", "t", "s", "p", "_">>, <<"_">>, <<".">>, <<"m", "j", "p", "e", "g", "_">>,
     <<"o", "n", "v", "i", "f", "_">>, <<"f", "r", "o", "n", "t">>, <<"x", ".">>,
     <<"_", "1">>, <<"c", "a", "m">>, <<"-">>}

CameraIds == {h \o t : h \in IdHeads, t \in IdTails}

\* camera_id.startswith(prefix)
StartsWith(s, prefix) ==
    /\ Len(s) >= Len(prefix)
    /\ SubSeq(s, 1, Len(prefix)) = prefix

\* self._adapters, in the order of the dict.
Adapters ==
    <<[prefix |-> <<"c", "a", "m", "e", "r", "a", ".">>, adapter |-> "ha_camera"],
      [prefix |-> <<"r", "t", "s", "p", "_">>, adapter |-> "rtsp_camera"],
      [prefix |-> <<"m", "j", "p", "e", "g", "_">>, adapter |-> "mjpeg_camera"],
      [prefix |-> <<"o", "n", "v", "i", "f", "_">>, adapter |-> "onvif_camera"]>>

\* The loop of _get_adapter_for_camera from the i-th entry on; "None" when
\* no prefix fits.
RECURSIVE AdapterLoop(_, _)
AdapterLoop(camera_id, i) ==
    IF i > Len(Adapters) THEN "None"
    ELSE IF StartsWith(camera_id, Adapters[i].prefix) THEN Adapters[i].adapter
    ELSE AdapterLoop(camera_id, i + 1)

\* A plausible slip: no default after the loop.
GetAdapterNoDefault(camera_id) == AdapterLoop(camera_id, 1)

\* CameraManager._get_adapter_for_camera
GetAdapterForCamera(camera_id) ==
    IF AdapterLoop(camera_id, 1) # "None" THEN AdapterLoop(camera_id, 1)
    ELSE "ha_camera"

CmIdle ==
    /\ cm_camera_id = <<>>
    /\ cm_adapter = "unset"

\* CameraManager.get_snapshot(camera_id), up to the adapter's call.
ManagerGetSnapshot(camera_id) ==
    /\ cm_camera_id' = camera_id
    /\ cm_adapter' = GetAdapterForCamera(camera_id)
    /\ UNCHANGED nonCmVars

(***************************************************************************)
(* The columns of a check: Database.save_check and Database._row_to_check. *)
(***************************************************************************)
MaxCkRows == 2

\* Python values, with their type.
Str(s) == [t |-> "str", v |-> s]
None == [t |-> "NoneType", v |-> "None"]
False == [t |-> "bool", v |-> "False"]
Zero == [t |-> "int", v |-> "0"]

\* The fields of the ToSortItem dataclass.
ToSortItemFields ==
    {"item", "location", "recurring", "recurrence_count", "priority", "quick_fix"}

\* Entries of CheckResult.to_sort: a dict, a ToSortItem, or anything else.
MugDict == [kind |-> "dict", d |-> [item |-> Str("mug"), priority |-> Str("high")]]

SockItem ==
    [kind |-> "dataclass", item |-> Str("sock"), location |-> None,
     recurring |-> False, recurrence_count |-> Zero, priority |-> Str("low"),
     quick_fix |-> None]

PenOther == [kind |-> "other", str |-> "pen"]

ToSortValues == {<<>>, <<MugDict>>, <<SockItem>>, <<PenOther>>}

LookingGoodLists == {<<>>, <<Str("lamp")>>}

\* CheckResult.notes: the default, what NotesResponse.model_dump() gives, and
\* a dict the legacy parser passes through from the reply.
NoNotes == [keys |-> {}, get |-> [k \in {} |-> None]]

DumpedNotes ==
    [keys |-> {"main", "pattern", "encouragement"},
     get |-> [main |-> Str("tidy"), pattern |-> None, encouragement |-> Str("nice")]]

LegacyNotes ==
    [keys |-> {"main", "tip"},
     get |-> [main |-> Str("tidy"), tip |-> Str("wipe the desk")]]

NotesDicts == {NoNotes, DumpedNotes, LegacyNotes}

CheckResults ==
    [status : {"sorted", "needs_attention"}, to_sort : ToSortValues,
     looking_good : LookingGoodLists, notes : NotesDicts]

\* dict.get(key)
DictGet(dict, key) == IF key \in dict.keys THEN dict.get[key] ELSE None

\* dataclasses.asdict(item)
AsDict(item) == [f \in ToSortItemFields |-> item[f]]

\* save_check: one entry of to_sort_items.
ToSortEntry(item) ==
    IF item.kind = "dataclass" THEN AsDict(item)
    ELSE IF item.kind = "dict" THEN item.d
    ELSE [item |-> Str(item.str)]

\* json.dumps and json.loads of a scalar.
JsonScalar(x) ==
    IF x.t = "str" THEN [j |-> "string", v |-> x.v]
    ELSE IF x.t = "NoneType" THEN [j |-> "null", v |-> "null"]
    ELSE IF x.t = "bool" THEN [j |-> "boolean", v |-> IF x.v = "False" THEN "false" ELSE "true"]
    ELSE [j |-> "number", v |-> x.v]

PyScalar(x) ==
    IF x.j = "string" THEN [t |-> "str", v |-> x.v]
    ELSE IF x.j = "null" THEN [t |-> "NoneType", v |-> "None"]
    ELSE IF x.j = "boolean" THEN [t |-> "bool", v |-> IF x.v = "false" THEN "False" ELSE "True"]
    ELSE [t |-> "int", v |-> x.v]

\* json.dumps of a list of dicts, and of a list of scalars.
JsonDumpsDicts(l) ==
    [i \in 1..Len(l) |-> [k \in DOMAIN l[i] |-> JsonScalar(l[i][k])]]

JsonDumpsList(l) == [i \in 1..Len(l) |-> JsonScalar(l[i])]

\* json.loads of the two.
JsonLoadsDicts(text) ==
    [i \in 1..Len(text) |-> [k \in DOMAIN text[i] |-> PyScalar(text[i][k])]]

JsonLoadsList(text) == [i \in 1..Len(text) |-> PyScalar(text[i])]

\* _row_to_check: the "notes" entry.
RowNotes(row) ==
    [main |-> row.notes_main, pattern |-> row.notes_pattern,
     encouragement |-> row.notes_encouragement]

\* Database._row_to_check
RowToCheck(row) ==
    [id |-> row.id, timestamp |-> row.timestamp, status |-> row.status,
     to_sort |-> JsonLoadsDicts(row.to_sort_json),
     looking_good |-> JsonLoadsList(row.looking_good_json),
     notes |-> RowNotes(row)]

\* save_check: the INSERT's values.
CheckRow(id, timestamp, result) ==
    [id |-> id, timestamp |-> timestamp, status |-> result.status,
     to_sort_json |->
        JsonDumpsDicts([i \in 1..Len(result.to_sort) |-> ToSortEntry(result.to_sort[i])]),
     looking_good_json |-> JsonDumpsList(result.looking_good),
     notes_main |-> IF result.notes.keys # {} THEN DictGet(result.notes, "main") ELSE None,
     notes_pattern |-> IF result.notes.keys # {} THEN DictGet(result.notes, "pattern") ELSE None,
     notes_encouragement |->
        IF result.notes.keys # {} THEN DictGet(result.notes, "encouragement") ELSE None]

NotLoaded == [called |-> FALSE]

CkIdle ==
    /\ ck_rows = <<>>
    /\ ck_spot_status = "unknown"
    /\ ck_last_check = Null
    /\ ck_clock = 0
    /\ ck_saved = <<>>
    /\ ck_loaded = NotLoaded

\* Database.save_check(spot_id, result): the INSERT, then update_spot.
SaveCheckResult(result) ==
    /\ Len(ck_rows) < MaxCkRows
    /\ ck_rows' = Append(ck_rows, CheckRow(Len(ck_rows) + 1, ck_clock, result))
    /\ ck_spot_status' = result.status
    /\ ck_last_check' = ck_clock
    /\ ck_clock' = ck_clock + 1
    /\ ck_saved' = Append(ck_saved, result)
    /\ UNCHANGED ck_loaded
    /\ UNCHANGED nonCkVars

\* Database.get_check(check_id)
GetCheck(check_id) ==
    /\ ck_loaded' =
         IF check_id \in 1..Len(ck_rows)
         THEN [called |-> TRUE, found |-> TRUE, id |-> check_id,
               check |-> RowToCheck(ck_rows[check_id])]
         ELSE [called |-> TRUE, found |-> FALSE, id |-> check_id]
    /\ UNCHANGED <<ck_rows, ck_spot_status, ck_last_check, ck_clock, ck_saved>>
    /\ UNCHANGED nonCkVars

(***************************************************************************)
(* The check history: update_check, mark_item_sorted, delete_check and     *)
(* clear_spot_history over the rows save_check wrote.  As in the handlers  *)
(* above, a request is one step.                                           *)
(***************************************************************************)
MaxHistChecks == 2
MaxHistResets == 1
MaxHistXp == 45

\* Spots 1 and 2 exist; no spot has id 3.
HistSpots == {1, 2}

HistSpotIds == {1, 2, 3}

\* What the analyzer hands to save_check.
HistResults ==
    {[status |-> "needs_attention",
      to_sort |-> <<[item |-> "mug", priority |-> "high", sorted |-> FALSE],
                    [item |-> "keys", priority |-> "low", sorted |-> FALSE]>>,
      looking_good |-> <<"lamp">>, notes_main |-> "None", error_message |-> "None",
      xp_earned |-> 10],
     [status |-> "error", to_sort |-> <<>>, looking_good |-> <<>>,
      notes_main |-> "None", error_message |-> "quota exceeded", xp_earned |-> 0]}

\* UpdateCheckNotesRequest.notes
HistNotes == {"moved the mug"}

\* Database.save_check: the row inserted.
HistRow(id, spot_id, timestamp, result) ==
    [id |-> id, spot_id |-> spot_id, timestamp |-> timestamp,
     status |-> result.status, to_sort |-> result.to_sort,
     looking_good |-> result.looking_good, notes_main |-> result.notes_main,
     error_message |-> result.error_message, xp_earned |-> result.xp_earned]

\* Database.get_check: the positions of the rows with this id.
HistGetCheck(check_id) == {i \in 1..Len(hc_checks) : hc_checks[i].id = check_id}

\* Database.get_recent_checks(spot_id, limit=1)
HistLatest(spot_id) ==
    LET mine == {i \in 1..Len(hc_checks) : hc_checks[i].spot_id = spot_id}
    IN {i \in mine : \A j \in mine : hc_checks[j].timestamp <= hc_checks[i].timestamp}

\* A plausible slip: update_check_notes writes the status column too.
NotesUpdateWithStatus(row, notes) == [row EXCEPT !.notes_main = notes, !.status = "sorted"]

\* Database.update_check_notes: UPDATE checks SET notes_main = ?
NotesUpdate(row, notes) == [row EXCEPT !.notes_main = notes]

\* Database.record_reset on the spots of the history.
HistRecordReset(sp, spot_id) ==
    [sp EXCEPT ![spot_id] =
       [status |-> "sorted", current_streak |-> @.current_streak + 1,
        longest_streak |-> Max(@.longest_streak, @.current_streak + 1),
        total_resets |-> @.total_resets + 1]]

HistIdle ==
    /\ hc_checks = <<>>
    /\ hc_next_id = 1
    /\ hc_clock = 0
    /\ hc_spots = [s \in HistSpots |->
                     [status |-> "unknown", current_streak |-> 0,
                      longest_streak |-> 0, total_resets |-> 0]]
    /\ hc_xp = 0
    /\ hc_op = <<"none">>

\* Database.save_check(spot_id, result) at the end of a check.
HistSaveCheck(spot_id, result) ==
    /\ spot_id \in HistSpots
    /\ hc_next_id <= MaxHistChecks
    /\ hc_checks' = Append(hc_checks, HistRow(hc_next_id, spot_id, hc_clock, result))
    /\ hc_next_id' = hc_next_id + 1
    /\ hc_clock' = hc_clock + 1
    /\ hc_spots' = [hc_spots EXCEPT ![spot_id].status = result.status]
    /\ hc_op' = <<"save_check", hc_next_id>>
    /\ UNCHANGED hc_xp
    /\ UNCHANGED nonHcVars

\* PUT /spots/{spot_id}/checks/{check_id}
UpdateCheck(spot_id, check_id, notes) ==
    /\ IF spot_id \notin HistSpots
       THEN hc_op' = <<"update_check", 404>> /\ UNCHANGED hc_checks
       ELSE IF HistGetCheck(check_id) = {}
       THEN hc_op' = <<"update_check", 404>> /\ UNCHANGED hc_checks
       ELSE LET i == CHOOSE i \in HistGetCheck(check_id) : TRUE IN
            IF hc_checks[i].spot_id # spot_id
            THEN hc_op' = <<"update_check", 400>> /\ UNCHANGED hc_checks
            ELSE /\ hc_checks' = [hc_checks EXCEPT ![i] = NotesUpdate(@, notes)]
                 /\ hc_op' = <<"update_check", 200, check_id>>
    /\ UNCHANGED <<hc_next_id, hc_clock, hc_spots, hc_xp>>
    /\ UNCHANGED nonHcVars

\* POST /spots/{spot_id}/mark-item-sorted with item_index (from 0)
HistMarkItemSorted(spot_id, item_index) ==
    /\ IF spot_id \notin HistSpots
       THEN hc_op' = <<"mark_item_sorted", 404>> /\ UNCHANGED <<hc_checks, hc_spots, hc_xp>>
       ELSE IF HistLatest(spot_id) = {}
       THEN hc_op' = <<"mark_item_sorted", 400>> /\ UNCHANGED <<hc_checks, hc_spots, hc_xp>>
       ELSE LET i == CHOOSE i \in HistLatest(spot_id) : TRUE
                to_sort == hc_checks[i].to_sort
            IN IF item_index < 0 \/ item_index >= Len(to_sort)
               THEN hc_op' = <<"mark_item_sorted", 400>>
                    /\ UNCHANGED <<hc_checks, hc_spots, hc_xp>>
               ELSE LET marked == MarkSorted(to_sort, item_index + 1) IN
                    /\ hc_xp + 35 <= MaxHistXp
                    /\ hc_spots[spot_id].total_resets < MaxHistResets
                    /\ hc_checks' = [hc_checks EXCEPT ![i].to_sort = marked]
                    /\ hc_xp' = hc_xp + 10 + (IF AllSorted(marked) THEN 25 ELSE 0)
                    /\ hc_spots' = IF AllSorted(marked)
                                   THEN HistRecordReset(hc_spots, spot_id)
                                   ELSE hc_spots
                    /\ hc_op' = <<"mark_item_sorted", 200, hc_checks[i].id, item_index>>
    /\ UNCHANGED <<hc_next_id, hc_clock>>
    /\ UNCHANGED nonHcVars

\* DELETE /spots/{spot_id}/checks/{check_id}
DeleteCheck(spot_id, check_id) ==
    /\ IF spot_id \notin HistSpots
       THEN hc_op' = <<"delete_check", 404>> /\ UNCHANGED hc_checks
       ELSE IF HistGetCheck(check_id) = {}
       THEN hc_op' = <<"delete_check", 404>> /\ UNCHANGED hc_checks
       ELSE LET i == CHOOSE i \in HistGetCheck(check_id) : TRUE IN
            IF hc_checks[i].spot_id # spot_id
            THEN hc_op' = <<"delete_check", 400>> /\ UNCHANGED hc_checks
            ELSE /\ hc_checks' = SelectSeq(hc_checks, LAMBDA c : c.id # check_id)
                 /\ hc_op' = <<"delete_check", 200, check_id>>
    /\ UNCHANGED <<hc_next_id, hc_clock, hc_spots, hc_xp>>
    /\ UNCHANGED nonHcVars

\* DELETE /spots/{spot_id}/history
HistClearSpotHistory(spot_id) ==
    /\ IF spot_id \notin HistSpots
       THEN hc_op' = <<"clear_spot_history", 404>> /\ UNCHANGED hc_checks
       ELSE /\ hc_checks' = SelectSeq(hc_checks, LAMBDA c : c.spot_id # spot_id)
            /\ hc_op' = <<"clear_spot_history", 200, spot_id>>
    /\ UNCHANGED <<hc_next_id, hc_clock, hc_spots, hc_xp>>
    /\ UNCHANGED nonHcVars

(***************************************************************************)
(* The schedule endpoints: PUT and DELETE /spots/{spot_id}/schedule.       *)
(***************************************************************************)
\* update_spot_schedule (route): the time of an item has two numeric parts
\* within 0..23 and 0..59.
RouteTimeValid(parts) ==
    /\ Len(parts) = 2
    /\ parts[1].int /\ parts[2].int
    /\ parts[1].value \in 0..23
    /\ parts[2].value \in 0..59

\* update_spot_schedule (route): the validation loop over data.schedule.
RouteValidates(schedule) ==
    \A n \in 1..Len(schedule) :
       /\ RouteTimeValid(schedule[n].time)
       /\ \A d \in 1..Len(schedule[n].days) : LowerDay(schedule[n].days[d]) \in DayNames

\* The schedules the route stores.
StorableSchedules == {schedule \in Schedules : RouteValidates(schedule)}

ApiIdle ==
    /\ api_schedule = [s \in SpotIds |-> <<>>]
    /\ api_resp = [made |-> FALSE]

\* PUT /spots/{spot_id}/schedule
PutSpotSchedule(spot_id, schedule) ==
    /\ IF RouteValidates(schedule)
       THEN /\ api_schedule' = [api_schedule EXCEPT ![spot_id] = schedule]
            /\ api_resp' = [made |-> TRUE, spot_id |-> spot_id, status |-> 200]
       ELSE /\ api_resp' = [made |-> TRUE, spot_id |-> spot_id, status |-> 400]
            /\ UNCHANGED api_schedule
    /\ UNCHANGED nonApiVars

\* DELETE /spots/{spot_id}/schedule
DeleteSpotSchedule(spot_id) ==
    /\ api_schedule' = [api_schedule EXCEPT ![spot_id] = <<>>]
    /\ api_resp' = [made |-> TRUE, spot_id |-> spot_id, status |-> 200]
    /\ UNCHANGED nonApiVars

\* lifespan: scheduler.start(db, ...) loads what the spots table holds.
LifespanStart == SchedulerStart(api_schedule)

(***************************************************************************)
(* Credential caches: HACamera._load_credentials, SpotAnalyzer._get_api_key *)
(* and their invalidation.                                                 *)
(***************************************************************************)
StoreValues ==
    [ha_url : {"", "http://ha.local"}, ha_token : {"", "t1", "t2"},
     gemini_api_key : {"", "g1", "g2"}]

\* Three environments: none set, an add-on under the supervisor, a legacy
\* setup with HASSIO_TOKEN, HA_BASE_URL and GEMINI_API_KEY.
Environments ==
    {[SUPERVISOR_TOKEN |-> "", HASSIO_TOKEN |-> "", HA_BASE_URL |-> "",
      GEMINI_API_KEY |-> "", token_file |-> "file-token"],
     [SUPERVISOR_TOKEN |-> "sup", HASSIO_TOKEN |-> "", HA_BASE_URL |-> "",
      GEMINI_API_KEY |-> "", token_file |-> ""],
     [SUPERVISOR_TOKEN |-> "", HASSIO_TOKEN |-> "hassio", HA_BASE_URL |-> "http://base",
      GEMINI_API_KEY |-> "env-key", token_file |-> ""]}

\* _load_credentials: the URL, from the settings or the environment.
LoadedUrl(store, env) ==
    IF store.ha_url # "" THEN store.ha_url
    ELSE IF env.SUPERVISOR_TOKEN # "" THEN "http://supervisor/core"
    ELSE env.HA_BASE_URL

\* _load_credentials: the token, from the settings, the environment or the file.
LoadedToken(store, env) ==
    IF store.ha_token # "" THEN store.ha_token
    ELSE IF env.SUPERVISOR_TOKEN # "" THEN env.SUPERVISOR_TOKEN
    ELSE IF env.HASSIO_TOKEN # "" THEN env.HASSIO_TOKEN
    ELSE env.token_file

\* A plausible slip: the loaded flag is never looked at.
CacheHitNever(loaded) == FALSE

\* "if self._credentials_loaded", "if self._api_key_loaded"
CacheHit(loaded) == loaded

NoCredentials == [loaded |-> FALSE, url |-> "", token |-> ""]

NoApiKey == [loaded |-> FALSE, key |-> ""]

CrIdle ==
    /\ cr_store = [ha_url |-> "", ha_token |-> "", gemini_api_key |-> ""]
    /\ cr_env = [SUPERVISOR_TOKEN |-> "", HASSIO_TOKEN |-> "", HA_BASE_URL |-> "",
                 GEMINI_API_KEY |-> "", token_file |-> ""]
    /\ cr_camera = NoCredentials
    /\ cr_analyzer = NoApiKey
    /\ cr_reads = [camera |-> 0, analyzer |-> 0]
    /\ cr_last = [who |-> "none"]

\* ConfigManager.set_ha_url / set_ha_token / set_gemini_api_key
SaveSetting(key, value) ==
    /\ value \in {v[key] : v \in StoreValues}
    /\ cr_store' = [cr_store EXCEPT ![key] = value]
    /\ UNCHANGED <<cr_env, cr_camera, cr_analyzer, cr_reads, cr_last>>
    /\ UNCHANGED nonCrVars

\* HACamera._get_credentials
GetCredentials ==
    /\ IF CacheHit(cr_camera.loaded)
       THEN /\ UNCHANGED <<cr_camera, cr_reads>>
            /\ cr_last' = [who |-> "camera", cached |-> TRUE,
                           url |-> cr_camera.url, token |-> cr_camera.token]
       ELSE /\ cr_camera' = [loaded |-> TRUE, url |-> LoadedUrl(cr_store, cr_env),
                             token |-> LoadedToken(cr_store, cr_env)]
            /\ cr_reads' = [cr_reads EXCEPT !.camera = @ + 1]
            /\ cr_last' = [who |-> "camera", cached |-> FALSE,
                           url |-> LoadedUrl(cr_store, cr_env),
                           token |-> LoadedToken(cr_store, cr_env)]
    /\ UNCHANGED <<cr_store, cr_env, cr_analyzer>>
    /\ UNCHANGED nonCrVars

\* HACamera.invalidate_credentials_cache
InvalidateCredentialsCache ==
    /\ cr_camera' = NoCredentials
    /\ cr_reads' = [cr_reads EXCEPT !.camera = 0]
    /\ cr_last' = [who |-> "none"]
    /\ UNCHANGED <<cr_store, cr_env, cr_analyzer>>
    /\ UNCHANGED nonCrVars

\* SpotAnalyzer._get_api_key
AnalyzerGetApiKey ==
    /\ IF CacheHit(cr_analyzer.loaded)
       THEN /\ UNCHANGED <<cr_analyzer, cr_reads>>
            /\ cr_last' = [who |-> "analyzer", cached |-> TRUE, key |-> cr_analyzer.key]
       ELSE /\ cr_analyzer' = [loaded |-> TRUE,
                               key |-> GetApiKey(cr_store.gemini_api_key, cr_env.GEMINI_API_KEY)]
            /\ cr_reads' = [cr_reads EXCEPT !.analyzer = @ + 1]
            /\ cr_last' = [who |-> "analyzer", cached |-> FALSE,
                           key |-> GetApiKey(cr_store.gemini_api_key, cr_env.GEMINI_API_KEY)]
    /\ UNCHANGED <<cr_store, cr_env, cr_camera>>
    /\ UNCHANGED nonCrVars

\* SpotAnalyzer.invalidate_api_key_cache
InvalidateApiKeyCache ==
    /\ cr_analyzer' = NoApiKey
    /\ cr_reads' = [cr_reads EXCEPT !.analyzer = 0]
    /\ cr_last' = [who |-> "none"]
    /\ UNCHANGED <<cr_store, cr_env, cr_camera>>
    /\ UNCHANGED nonCrVars

(***************************************************************************)
(* POST /spots/{spot_id}/reset and the rewards of a verified reset.        *)
(***************************************************************************)
MaxRwRequests == 4
MaxRwDay == 1

\* The achievements reset_spot looks at, in its order.
ResetAchievements ==
    <<"first_blood", "streak_3", "streak_7", "streak_30", "speed_demon",
      "multi_spot", "centurion">>

\* ACHIEVEMENTS[achievement_id]["xp_bonus"]
XpBonus(achievement_id) ==
    CASE achievement_id = "first_blood" -> 50
      [] achievement_id = "streak_3" -> 75
      [] achievement_id = "streak_7" -> 150
      [] achievement_id = "streak_30" -> 500
      [] achievement_id = "speed_demon" -> 100
      [] achievement_id = "multi_spot" -> 100
      [] achievement_id = "centurion" -> 300

\* check_achievement_unlock for these achievements.
CheckAchievementUnlock(achievement_id, streak_days, total_resets, minutes_since_check, spots_reset_in_session) ==
    CASE achievement_id = "first_blood" -> total_resets >= 1
      [] achievement_id = "streak_3" -> streak_days >= 3
      [] achievement_id = "streak_7" -> streak_days >= 7
      [] achievement_id = "streak_30" -> streak_days >= 30
      [] achievement_id = "speed_demon" ->
            minutes_since_check # Null /\ minutes_since_check <= 5
      [] achievement_id = "multi_spot" -> spots_reset_in_session >= 3
      [] achievement_id = "centurion" -> total_resets >= 100

SeqHas(seq, x) == \E i \in 1..Len(seq) : seq[i] = x

\* A plausible slip: unlock_achievement appends without looking.
AlreadyUnlockedNever(achievements, achievement_id) == FALSE

\* unlock_achievement: "if achievement_id in achievements"
AlreadyUnlocked(achievements, achievement_id) == SeqHas(achievements, achievement_id)

\* Database.unlock_achievement on the gamification row.
UnlockAchievement(game, achievement_id) ==
    IF AlreadyUnlocked(game.achievements, achievement_id)
    THEN [game |-> game, unlocked |-> FALSE]
    ELSE [game |-> [game EXCEPT !.achievements = Append(@, achievement_id)],
          unlocked |-> TRUE]

\* Database.add_xp on the gamification row.
RwAddXp(game, amount) == [game EXCEPT !.xp_total = @ + amount]

\* Database.increment_session_resets
IncrementSessionResets(game, today) ==
    [game EXCEPT !.spots_reset_in_session =
                     (IF game.last_reset_session # today THEN 0 ELSE @) + 1,
                 !.last_reset_session = today]

\* reset_spot: the loop over the achievements from the n-th on; acc holds the
\* gamification row, the ids unlocked and what each unlock_achievement call
\* returned.
RECURSIVE AchievementLoop(_, _, _, _, _)
AchievementLoop(acc, n, updated_spot, minutes_since_check, session_resets) ==
    IF n > Len(ResetAchievements) THEN acc
    ELSE
      LET id == ResetAchievements[n] IN
      IF CheckAchievementUnlock(id, updated_spot.current_streak, updated_spot.total_resets,
                                minutes_since_check, session_resets)
      THEN LET u == UnlockAchievement(acc.game, id) IN
           AchievementLoop(
              [game |-> IF u.unlocked THEN RwAddXp(u.game, XpBonus(id)) ELSE u.game,
               unlocked |-> IF u.unlocked THEN Append(acc.unlocked, id) ELSE acc.unlocked,
               calls |-> Append(acc.calls, [id |-> id, returned |-> u.unlocked])],
              n + 1, updated_spot, minutes_since_check, session_resets)
      ELSE AchievementLoop(acc, n + 1, updated_spot, minutes_since_check, session_resets)

\* A plausible slip: only a needs_attention verification is refused.
IsVerifiedUnlessAttention(status) == status # "needs_attention"

\* reset_spot: "if result.status == 'sorted'"
IsVerified(status) == status = "sorted"

\* Database.record_reset on the row of the spot.
RwRecordReset(spot) ==
    [status |-> "sorted", current_streak |-> spot.current_streak + 1,
     longest_streak |-> Max(spot.longest_streak, spot.current_streak + 1),
     total_resets |-> spot.total_resets + 1]

RwIdle ==
    /\ rw_spot = [status |-> "unknown", current_streak |-> 0, longest_streak |-> 0,
                  total_resets |-> 0]
    /\ rw_checks = <<>>
    /\ rw_game = [xp_total |-> 0, achievements |-> <<>>, spots_reset_in_session |-> 0,
                  last_reset_session |-> Null]
    /\ rw_today = 0
    /\ rw_resp = [made |-> FALSE]

\* POST /spots/{spot_id}/reset with an acceptable image: status is the
\* analyzer's verdict, minutes_since_check the age of the spot's last check.
RwResetSpot(status, minutes_since_check) ==
    /\ Len(rw_checks) < MaxRwRequests
    /\ (minutes_since_check = Null) <=> (rw_checks = <<>>)
    /\ rw_checks' = Append(rw_checks, status)
    /\ LET saved == [rw_spot EXCEPT !.status = status] IN
       IF IsVerified(status)
       THEN LET updated_spot == RwRecordReset(saved)
                xp_earned == CalculateXpForAction("reset", updated_spot.current_streak,
                                                  minutes_since_check)
                g1 == RwAddXp(rw_game, xp_earned)
                g2 == IncrementSessionResets(g1, rw_today)
                r == AchievementLoop([game |-> g2, unlocked |-> <<>>, calls |-> <<>>], 1,
                                     updated_spot, minutes_since_check,
                                     g2.spots_reset_in_session)
            IN /\ rw_spot' = updated_spot
               /\ rw_game' = r.game
               /\ rw_resp' = [made |-> TRUE, status |-> "sorted", reset |-> TRUE,
                              base_xp |-> xp_earned,
                              achievements_unlocked |-> r.unlocked, calls |-> r.calls]
       ELSE /\ rw_spot' = [saved EXCEPT !.current_streak = 0]
            /\ rw_game' = rw_game
            /\ rw_resp' = [made |-> TRUE, status |-> status, reset |-> FALSE,
                           base_xp |-> 0, achievements_unlocked |-> <<>>, calls |-> <<>>]
    /\ UNCHANGED rw_today
    /\ UNCHANGED nonRwVars

\* Midnight UTC.
RwNextDay ==
    /\ rw_today < MaxRwDay
    /\ rw_today' = rw_today + 1
    /\ UNCHANGED <<rw_spot, rw_checks, rw_game, rw_resp>>
    /\ UNCHANGED nonRwVars

(***************************************************************************)
(* POST /gamification/complete-daily-challenge.  The handler awaits the    *)
(* database between its SELECT and its UPDATE and again before add_xp, so  *)
(* other requests run between these steps.                                 *)
(***************************************************************************)
MaxDcRequests == 3
MaxDcDay == 1

DcRequests == 1..MaxDcRequests

\* The xp_reward of DAILY_CHALLENGES, in order.
DailyChallenges == <<100, 150, 75, 100, 200, 75, 100>>

\* get_daily_challenge(date)["xp_reward"], days counted from a day of index 0.
GetDailyChallenge(day) == DailyChallenges[(day % Len(DailyChallenges)) + 1]

DcIdle ==
    /\ dc_completed = Null
    /\ dc_xp = 0
    /\ dc_today = 0
    /\ dc_req = [r \in DcRequests |-> [pc |-> "idle"]]

\* The request arrives: today is taken and the SELECT runs.
DcSelect(r) ==
    /\ dc_req[r].pc = "idle"
    /\ dc_req' = [dc_req EXCEPT ![r] =
                     [pc |-> "selected", today |-> dc_today, xp_reward |-> GetDailyChallenge(dc_today),
                      row |-> dc_completed]]
    /\ UNCHANGED <<dc_completed, dc_xp, dc_today>>
    /\ UNCHANGED nonDcVars

\* "if row and row[...] == today: return False", else the UPDATE.
DcUpdate(r) ==
    /\ dc_req[r].pc = "selected"
    /\ IF dc_req[r].row = dc_req[r].today
       THEN /\ dc_req' = [dc_req EXCEPT ![r] = [@ EXCEPT !.pc = "done"] @@ [success |-> FALSE]]
            /\ UNCHANGED dc_completed
       ELSE /\ dc_completed' = dc_req[r].today
            /\ dc_req' = [dc_req EXCEPT ![r].pc = "updated"]
    /\ UNCHANGED <<dc_xp, dc_today>>
    /\ UNCHANGED nonDcVars

\* The route: newly_completed is true, add_xp and the answer.
DcAddXp(r) ==
    /\ dc_req[r].pc = "updated"
    /\ dc_xp' = dc_xp + dc_req[r].xp_reward
    /\ dc_req' = [dc_req EXCEPT ![r] = [@ EXCEPT !.pc = "done"] @@ [success |-> TRUE]]
    /\ UNCHANGED <<dc_completed, dc_today>>
    /\ UNCHANGED nonDcVars

\* Midnight UTC.
DcNextDay ==
    /\ dc_today < MaxDcDay
    /\ dc_today' = dc_today + 1
    /\ UNCHANGED <<dc_completed, dc_xp, dc_req>>
    /\ UNCHANGED nonDcVars

(***************************************************************************)
(* Database.record_reset called by several requests for one spot.  It      *)
(* reads the row with get_spot, then awaits update_spot with values        *)
(* computed from the row read; other requests run in between.              *)
(***************************************************************************)
MaxRrCalls == 3
MaxRrStreakResets == 1

RrCalls == 1..MaxRrCalls

\* Rows a spot can have before the calls: a new spot, and one with a past.
RrRows ==
    {[status |-> "unknown", current_streak |-> 0, longest_streak |-> 0, total_resets |-> 0],
     [status |-> "needs_attention", current_streak |-> 2, longest_streak |-> 3,
      total_resets |-> 5]}

RrIdle ==
    /\ rr_spot = [status |-> "unknown", current_streak |-> 0, longest_streak |-> 0,
                  total_resets |-> 0]
    /\ rr_before = rr_spot
    /\ rr_req = [c \in RrCalls |-> [pc |-> "idle"]]
    /\ rr_streak_resets = 0

\* record_reset: "spot = await self.get_spot(spot_id)"
RrGetSpot(c) ==
    /\ rr_req[c].pc = "idle"
    /\ rr_req' = [rr_req EXCEPT ![c] = [pc |-> "read", spot |-> rr_spot]]
    /\ UNCHANGED <<rr_spot, rr_before, rr_streak_resets>>
    /\ UNCHANGED nonRrVars

\* record_reset: "await self.update_spot(...)" with the values of the row read.
RrUpdateSpot(c) ==
    /\ rr_req[c].pc = "read"
    /\ rr_spot' = RwRecordReset(rr_req[c].spot)
    /\ rr_req' = [rr_req EXCEPT ![c].pc = "done"]
    /\ UNCHANGED <<rr_before, rr_streak_resets>>
    /\ UNCHANGED nonRrVars

\* reset_spot with a verification that is not sorted:
\* update_spot(spot_id, current_streak=0).
RrStreakReset ==
    /\ rr_streak_resets < MaxRrStreakResets
    /\ rr_spot' = [rr_spot EXCEPT !.current_streak = 0]
    /\ rr_streak_resets' = rr_streak_resets + 1
    /\ UNCHANGED <<rr_before, rr_req>>
    /\ UNCHANGED nonRrVars

(***************************************************************************)
(* Specifications.                                                         *)
(***************************************************************************)
DbInit ==
    /\ spots = [s \in SpotIds |-> NoSpot]
    /\ nextSpotId = 1
    /\ checks = <<>>
    /\ nextCheckId = 1
    /\ now = 0
    /\ foreign_keys \in BOOLEAN
    /\ resp = <<>>

\* The other parts at rest.
RestDb == DbInit /\ foreign_keys = FALSE
RestHA == ha_token = FALSE /\ HAIdle

Init == DbInit /\ RestHA /\ AnIdle /\ MemIdle /\ TokIdle /\ SchedIdle /\ DreamIdle /\ GenIdle /\ PrIdle /\ DayIdle /\ XpIdle /\ CmIdle /\ CkIdle /\ HistIdle /\ ApiIdle /\ CrIdle /\ RwIdle /\ DcIdle /\ RrIdle

Next ==
    \/ CreateSpot
    \/ \E s \in SpotIds : DeleteSpot(s)
    \/ \E s \in SpotIds : CheckSpot(s)
    \/ \E s \in SpotIds : ScheduledCheck(s)
    \/ \E s \in SpotIds : ResetSpot(s)
    \/ \E s \in SpotIds : SnoozeSpot(s)
    \/ \E s \in SpotIds : UnsnoozeSpot(s)
    \/ \E s \in SpotIds : CheckSpotWithUpload(s)
    \/ CheckAll
    \/ \E s \in SpotIds : MarkItemSorted(s)
    \/ BulkReset
    \/ ResetAllNeedingAttention
    \/ BulkSnooze
    \/ \E s \in SpotIds : ClearSpotHistory(s)
    \/ Tick

Spec == Init /\ [][Next]_vars

\* The camera adapter alone.
InitHA ==
    /\ RestDb /\ AnIdle /\ MemIdle /\ TokIdle /\ SchedIdle /\ DreamIdle /\ GenIdle /\ PrIdle /\ DayIdle /\ XpIdle /\ CmIdle /\ CkIdle /\ HistIdle /\ ApiIdle /\ CrIdle /\ RwIdle /\ DcIdle /\ RrIdle
    /\ ha_token \in BOOLEAN
    /\ HAIdle

NextHA ==
    \/ \E method \in {"get_snapshot", "get_snapshot_with_error"} : HACall(method)
    \/ \E response \in HubResponses : HAAttempt(response)
    \/ HAReturn

SpecHA == InitHA /\ [][NextHA]_vars

\* The analyzer alone.
InitAn == RestDb /\ RestHA /\ AnIdle /\ MemIdle /\ TokIdle /\ SchedIdle /\ DreamIdle /\ GenIdle /\ PrIdle /\ DayIdle /\ XpIdle /\ CmIdle /\ CkIdle /\ HistIdle /\ ApiIdle /\ CrIdle /\ RwIdle /\ DcIdle /\ RrIdle

NextAn == \E call \in AnalyzerCalls : AnalyzeCall(call)

SpecAn == InitAn /\ [][NextAn]_vars

\* The memory engine alone.
InitMem == RestDb /\ RestHA /\ AnIdle /\ MemIdle /\ TokIdle /\ SchedIdle /\ DreamIdle /\ GenIdle /\ PrIdle /\ DayIdle /\ XpIdle /\ CmIdle /\ CkIdle /\ HistIdle /\ ApiIdle /\ CrIdle /\ RwIdle /\ DcIdle /\ RrIdle

NextMem ==
    \/ \E to_sort \in MemToSortLists : MemCheck(to_sort)
    \/ MemGetSpot
    \/ MemTick

SpecMem == InitMem /\ [][NextMem]_vars

\* The token table alone.
InitTok == RestDb /\ RestHA /\ AnIdle /\ MemIdle /\ TokIdle /\ SchedIdle /\ DreamIdle /\ GenIdle /\ PrIdle /\ DayIdle /\ XpIdle /\ CmIdle /\ CkIdle /\ HistIdle /\ ApiIdle /\ CrIdle /\ RwIdle /\ DcIdle /\ RrIdle

NextTok ==
    \/ CreateApiToken
    \/ \E token \in TokenStrings : VerifyApiToken(token)
    \/ \E id \in TokenIds : RevokeApiToken(id)
    \/ \E id \in TokenIds : DeleteApiToken(id)

SpecTok == InitTok /\ [][NextTok]_vars

\* The scheduler's job store under update_spot_schedule.
InitSched ==
    /\ RestDb /\ RestHA /\ AnIdle /\ MemIdle /\ TokIdle /\ DreamIdle /\ GenIdle /\ PrIdle /\ DayIdle /\ XpIdle /\ CmIdle /\ CkIdle /\ HistIdle /\ ApiIdle /\ CrIdle /\ RwIdle /\ DcIdle /\ RrIdle
    /\ jobs = {}
    /\ cron_validates \in BOOLEAN
    /\ sched_running = TRUE
    /\ sched_call = NoCall
    /\ sched_fired = NoRun

NextSched ==
    \/ \E s \in SpotIds, schedule \in Schedules : UpdateSpotSchedule(s, schedule)
    \/ \E s \in SpotIds : ClearSpotSchedule(s)

SpecSched == InitSched /\ [][NextSched]_vars

\* The scheduler from its start on: jobs loaded, jobs firing.
InitFire ==
    /\ RestDb /\ RestHA /\ AnIdle /\ MemIdle /\ TokIdle /\ DreamIdle /\ GenIdle /\ PrIdle /\ DayIdle /\ XpIdle /\ CmIdle /\ CkIdle /\ HistIdle /\ ApiIdle /\ CrIdle /\ RwIdle /\ DcIdle /\ RrIdle
    /\ jobs = {}
    /\ cron_validates \in BOOLEAN
    /\ sched_running = FALSE
    /\ sched_call = NoCall
    /\ sched_fired = NoRun

NextFire ==
    \/ \E stored \in [SpotIds -> Schedules] : SchedulerStart(stored)
    \/ \E job \in jobs, outcome \in CallbackOutcomes : FireJob(job, outcome)

SpecFire == InitFire /\ [][NextFire]_vars

\* Dream state generation.  The event loop runs every task it was handed,
\* and a generation ends: every provider call has a timeout and is tried a
\* bounded number of times.
InitDream ==
    RestDb /\ RestHA /\ AnIdle /\ MemIdle /\ TokIdle /\ SchedIdle /\ DreamIdle /\ GenIdle /\ PrIdle /\ DayIdle /\ XpIdle /\ CmIdle /\ CkIdle /\ HistIdle /\ ApiIdle /\ CrIdle /\ RwIdle /\ DcIdle /\ RrIdle

NextDream ==
    \/ \E s \in SpotIds, t \in TaskIds : FirstCheck(s, t)
    \/ \E t \in TaskIds : BackgroundSetsFlag(t)
    \/ \E s \in SpotIds, t \in TaskIds : UploadInitialPhoto(s, t)
    \/ \E t \in TaskIds : UploadMarksGenerating(t)
    \/ \E s \in SpotIds, t \in TaskIds : GenerateDreamState(s, t)
    \/ \E t \in TaskIds, snapshot \in BOOLEAN : GenerateMarksGenerating(t, snapshot)
    \/ \E t \in TaskIds, outcome \in GenerationOutcomes : GenerationEnds(t, outcome)

SpecDream ==
    /\ InitDream
    /\ [][NextDream]_vars
    /\ \A t \in TaskIds :
          /\ WF_vars(BackgroundSetsFlag(t))
          /\ WF_vars(\E outcome \in GenerationOutcomes : GenerationEnds(t, outcome))

\* One run of the dream state generator.
InitGen ==
    RestDb /\ RestHA /\ AnIdle /\ MemIdle /\ TokIdle /\ SchedIdle /\ DreamIdle /\ GenIdle /\ PrIdle /\ DayIdle /\ XpIdle /\ CmIdle /\ CkIdle /\ HistIdle /\ ApiIdle /\ CrIdle /\ RwIdle /\ DcIdle /\ RrIdle

NextGen ==
    \/ \E image_ok \in BOOLEAN, keys \in SUBSET ProviderNames : GenStart(image_ok, keys)
    \/ \E outcome \in AttemptOutcomes : GenAttempt(outcome)

SpecGen == InitGen /\ [][NextGen]_vars

\* Replies parsed one after the other.
InitPr ==
    RestDb /\ RestHA /\ AnIdle /\ MemIdle /\ TokIdle /\ SchedIdle /\ DreamIdle /\ GenIdle /\ PrIdle /\ DayIdle /\ XpIdle /\ CmIdle /\ CkIdle /\ HistIdle /\ ApiIdle /\ CrIdle /\ RwIdle /\ DcIdle /\ RrIdle

NextPr == \E reply \in JsonReplies : ParseReply(reply)

SpecPr == InitPr /\ [][NextPr]_vars

\* The memory recomputed as the history grows.
InitDay ==
    RestDb /\ RestHA /\ AnIdle /\ MemIdle /\ TokIdle /\ SchedIdle /\ DreamIdle /\ GenIdle /\ PrIdle /\ DayIdle /\ XpIdle /\ CmIdle /\ CkIdle /\ HistIdle /\ ApiIdle /\ CrIdle /\ RwIdle /\ DcIdle /\ RrIdle

NextDay == \E check \in DayCheckRows : CalculateMemory(check)

SpecDay == InitDay /\ [][NextDay]_vars

\* The XP total growing.
InitLevel ==
    RestDb /\ RestHA /\ AnIdle /\ MemIdle /\ TokIdle /\ SchedIdle /\ DreamIdle /\ GenIdle /\ PrIdle /\ DayIdle /\ XpIdle /\ CmIdle /\ CkIdle /\ HistIdle /\ ApiIdle /\ CrIdle /\ RwIdle /\ DcIdle /\ RrIdle

NextLevel == \E amount \in {1, 25, 250} : AddXp(amount)

SpecLevel == InitLevel /\ [][NextLevel]_vars

\* calculate_xp_for_action on its inputs.
InitXp ==
    RestDb /\ RestHA /\ AnIdle /\ MemIdle /\ TokIdle /\ SchedIdle /\ DreamIdle /\ GenIdle /\ PrIdle /\ DayIdle /\ XpIdle /\ CmIdle /\ CkIdle /\ HistIdle /\ ApiIdle /\ CrIdle /\ RwIdle /\ DcIdle /\ RrIdle

NextXp ==
    \E action \in XpActions, streak_days \in 0..MaxStreakDays, m \in MinutesValues :
       XpForAction(action, streak_days, m)

SpecXp == InitXp /\ [][NextXp]_vars

\* Requests to the camera manager.
InitCm ==
    RestDb /\ RestHA /\ AnIdle /\ MemIdle /\ TokIdle /\ SchedIdle /\ DreamIdle /\ GenIdle /\ PrIdle /\ DayIdle /\ XpIdle /\ CmIdle /\ CkIdle /\ HistIdle /\ ApiIdle /\ CrIdle /\ RwIdle /\ DcIdle /\ RrIdle

NextCm == \E camera_id \in CameraIds : ManagerGetSnapshot(camera_id)

SpecCm == InitCm /\ [][NextCm]_vars

\* Checks saved and read back.
InitCk ==
    RestDb /\ RestHA /\ AnIdle /\ MemIdle /\ TokIdle /\ SchedIdle /\ DreamIdle /\ GenIdle /\ PrIdle /\ DayIdle /\ XpIdle /\ CmIdle /\ CkIdle /\ HistIdle /\ ApiIdle /\ CrIdle /\ RwIdle /\ DcIdle /\ RrIdle

NextCk ==
    \/ \E result \in CheckResults : SaveCheckResult(result)
    \/ \E check_id \in 1..(MaxCkRows + 1) : GetCheck(check_id)

SpecCk == InitCk /\ [][NextCk]_vars

\* Requests on the check history.
InitHist ==
    RestDb /\ RestHA /\ AnIdle /\ MemIdle /\ TokIdle /\ SchedIdle /\ DreamIdle /\ GenIdle /\ PrIdle /\ DayIdle /\ XpIdle /\ CmIdle /\ CkIdle /\ HistIdle /\ ApiIdle /\ CrIdle /\ RwIdle /\ DcIdle /\ RrIdle

NextHist ==
    \/ \E spot_id \in HistSpots, result \in HistResults : HistSaveCheck(spot_id, result)
    \/ \E spot_id \in HistSpotIds, check_id \in 1..MaxHistChecks, notes \in HistNotes :
          UpdateCheck(spot_id, check_id, notes)
    \/ \E spot_id \in HistSpotIds, item_index \in -1..2 : HistMarkItemSorted(spot_id, item_index)
    \/ \E spot_id \in HistSpotIds, check_id \in 1..MaxHistChecks : DeleteCheck(spot_id, check_id)
    \/ \E spot_id \in HistSpotIds : HistClearSpotHistory(spot_id)

SpecHist == InitHist /\ [][NextHist]_vars

\* The application with its scheduler and the schedule endpoints.
InitApi ==
    /\ RestDb /\ RestHA /\ AnIdle /\ MemIdle /\ TokIdle /\ DreamIdle /\ GenIdle /\ PrIdle /\ DayIdle /\ XpIdle /\ CmIdle /\ CkIdle /\ HistIdle /\ CrIdle /\ RwIdle /\ DcIdle /\ RrIdle
    /\ jobs = {}
    /\ cron_validates \in BOOLEAN
    /\ sched_running = FALSE
    /\ sched_call = NoCall
    /\ sched_fired = NoRun
    /\ api_schedule \in [SpotIds -> StorableSchedules]
    /\ api_resp = [made |-> FALSE]

NextApi ==
    \/ LifespanStart
    \/ \E s \in SpotIds, schedule \in Schedules : PutSpotSchedule(s, schedule)
    \/ \E s \in SpotIds : DeleteSpotSchedule(s)

SpecApi == InitApi /\ [][NextApi]_vars

\* One camera object and one analyzer object while the settings change.
InitCr ==
    /\ RestDb /\ RestHA /\ AnIdle /\ MemIdle /\ TokIdle /\ SchedIdle /\ DreamIdle /\ GenIdle /\ PrIdle /\ DayIdle /\ XpIdle /\ CmIdle /\ CkIdle /\ HistIdle /\ ApiIdle /\ RwIdle /\ DcIdle /\ RrIdle
    /\ cr_store \in StoreValues
    /\ cr_env \in Environments
    /\ cr_camera = NoCredentials
    /\ cr_analyzer = NoApiKey
    /\ cr_reads = [camera |-> 0, analyzer |-> 0]
    /\ cr_last = [who |-> "none"]

NextCr ==
    \/ \E key \in {"ha_url", "ha_token", "gemini_api_key"}, value \in {"", "http://ha.local", "t1", "t2", "g1", "g2"} :
          SaveSetting(key, value)
    \/ GetCredentials
    \/ InvalidateCredentialsCache
    \/ AnalyzerGetApiKey
    \/ InvalidateApiKeyCache

SpecCr == InitCr /\ [][NextCr]_vars

\* Reset requests, one after the other.
InitRw ==
    RestDb /\ RestHA /\ AnIdle /\ MemIdle /\ TokIdle /\ SchedIdle /\ DreamIdle /\ GenIdle /\ PrIdle /\ DayIdle /\ XpIdle /\ CmIdle /\ CkIdle /\ HistIdle /\ ApiIdle /\ CrIdle /\ RwIdle /\ DcIdle /\ RrIdle

NextRw ==
    \/ \E status \in {"sorted", "needs_attention", "error"},
          minutes_since_check \in {Null, 3, 20, 60} :
          RwResetSpot(status, minutes_since_check)
    \/ RwNextDay

SpecRw == InitRw /\ [][NextRw]_vars

\* Complete-daily-challenge requests, interleaved at their awaits.
InitDc ==
    RestDb /\ RestHA /\ AnIdle /\ MemIdle /\ TokIdle /\ SchedIdle /\ DreamIdle /\ GenIdle /\ PrIdle /\ DayIdle /\ XpIdle /\ CmIdle /\ CkIdle /\ HistIdle /\ ApiIdle /\ CrIdle /\ RwIdle /\ DcIdle /\ RrIdle

NextDc ==
    \/ \E r \in DcRequests : DcSelect(r)
    \/ \E r \in DcRequests : DcUpdate(r)
    \/ \E r \in DcRequests : DcAddXp(r)
    \/ DcNextDay

SpecDc == InitDc /\ [][NextDc]_vars

\* record_reset calls on one spot, interleaved at their awaits.
InitRr ==
    RestDb /\ RestHA /\ AnIdle /\ MemIdle /\ TokIdle /\ SchedIdle /\ DreamIdle /\ GenIdle /\ PrIdle /\ DayIdle /\ XpIdle /\ CmIdle /\ CkIdle /\ HistIdle /\ ApiIdle /\ CrIdle /\ RwIdle /\ DcIdle
    /\ rr_spot \in RrRows
    /\ rr_before = rr_spot
    /\ rr_req = [c \in RrCalls |-> [pc |-> "idle"]]
    /\ rr_streak_resets = 0

NextRr ==
    \/ \E c \in RrCalls : RrGetSpot(c)
    \/ \E c \in RrCalls : RrUpdateSpot(c)
    \/ RrStreakReset

SpecRr == InitRr /\ [][NextRr]_vars

(***************************************************************************)
(* Streaks.                                                                *)
(***************************************************************************)
\* C1: whatever the handlers have done (check, check-all, scheduled check,
\* reset, bulk reset, mark-item-sorted, snooze, unsnooze), every spot has
\* current_streak >= 0 and longest_streak >= current_streak.
StreaksOrdered ==
    \A s \in SpotIds :
        spots[s].present =>
            /\ spots[s].current_streak >= 0
            /\ spots[s].longest_streak >= spots[s].current_streak

\* A spot that was reset twice, fell back to 0 and was reset again.
StreakBelowLongest ==
    \E s \in SpotIds :
        /\ spots[s].present
        /\ spots[s].current_streak = 1
        /\ spots[s].longest_streak = 2

(***************************************************************************)
(* Check-all and snoozed spots.                                            *)
(***************************************************************************)
\* The check rows of spot s.
ChecksOf(cs, s) == SelectSeq(cs, LAMBDA c : c.spot_id = s)

\* C6: in a check-all step (one that answers for at least one spot), a spot whose snoozed_until is strictly later
\* than now gets a result with status "snoozed", no snapshot and no analysis,
\* gets no new check row and keeps its status and its streaks; a spot whose
\* snoozed_until is not later than now is checked as a spot with no snooze is:
\* a snapshot is asked for, and when the analysis ran its check row is saved.
SnoozedSkippedInCheckAll ==
    [][(resp' # <<>> /\ CheckAll) =>
        /\ Len(resp') = Cardinality({s \in SpotIds : spots[s].present})
        /\ \A i \in 1..Len(resp') :
             LET r == resp'[i]
                 s == r.spot_id
             IN IF spots[s].snoozed_until # Null /\ spots[s].snoozed_until > now
                THEN /\ r.status = "snoozed"
                     /\ ~r.snapshot
                     /\ ~r.analyzed
                     /\ spots'[s] = spots[s]
                     /\ ChecksOf(checks', s) = ChecksOf(checks, s)
                ELSE /\ r.status # "snoozed"
                     /\ r.snapshot
                     /\ r.analyzed =>
                          /\ Len(ChecksOf(checks', s)) = Len(ChecksOf(checks, s)) + 1
                          /\ spots'[s].status = r.status
                     /\ ~r.analyzed =>
                          /\ spots'[s] = spots[s]
                          /\ ChecksOf(checks', s) = ChecksOf(checks, s)
    ]_vars

\* A check-all has just answered for a spot whose snooze is still running and
\* for a spot whose snooze has run out and which it analyzed.
CheckAllMetBothSnoozes ==
    \E i, j \in 1..Len(resp) :
        /\ resp[i].status = "snoozed"
        /\ spots[resp[i].spot_id].snoozed_until > now
        /\ resp[j].analyzed
        /\ spots[resp[j].spot_id].snoozed_until # Null
        /\ spots[resp[j].spot_id].snoozed_until <= now

(***************************************************************************)
(* Deleting a spot.                                                        *)
(***************************************************************************)
\* C7: a step that deletes spot s leaves no check row whose spot_id is s.
DeleteSpotCascades ==
    [][\A s \in SpotIds :
          (spots[s].present /\ ~spots'[s].present) =>
              ChecksOf(checks', s) = <<>>]_vars

(***************************************************************************)
(* Snapshot retries.                                                       *)
(***************************************************************************)
\* C2: a call of get_snapshot or get_snapshot_with_error makes at most 3
\* attempts; no attempt follows one that returned data, nor one that failed
\* with auth or not_found; and a call with a token ends only on data, on auth
\* or not_found, or with its 3 attempts used, so that every other error type
\* is retried.
SnapshotRetries ==
    /\ Len(ha_log) <= 3
    /\ \A i \in 1..(Len(ha_log) - 1) :
          /\ ~ha_log[i].data
          /\ ha_log[i].error_type \notin {"auth", "not_found"}
    /\ ha_pc = "attempt" => Len(ha_log) < 3
    /\ (ha_pc = "done" /\ ha_token) =>
          /\ Len(ha_log) >= 1
          /\ \/ ha_log[Len(ha_log)].data
             \/ ha_log[Len(ha_log)].error_type \in {"auth", "not_found"}
             \/ Len(ha_log) = 3
    /\ (ha_pc = "done" /\ ~ha_token) => Len(ha_log) = 0

\* A call that used its three attempts on errors that are retried.
ThreeAttemptsUsed ==
    /\ ha_pc = "done"
    /\ Len(ha_log) = 3
    /\ \A i \in 1..3 : ~ha_log[i].data

(***************************************************************************)
(* The analyzer's result.                                                  *)
(***************************************************************************)
\* C3: no exception leaves analyze; its result has status sorted,
\* needs_attention or error; with no API key the result is an error and no
\* request was sent; and an error result of a call that sent its request has
\* an api_response_time that is not None.
AnalyzeAlwaysReturns ==
    an_result # [made |-> FALSE] =>
        /\ ~an_result.raised
        /\ an_result.result.status \in {"sorted", "needs_attention", "error"}
        /\ (an_call.config_key = "" /\ an_call.env_key = "") =>
              /\ an_result.result.status = "error"
              /\ an_result.requests = 0
        /\ (an_result.requests >= 1 /\ an_result.result.status = "error") =>
              an_result.result.api_response_time # Null

\* A call whose request was answered 200 with no candidates: a failure found
\* by the parser after the request.
AnalyzeParseFailure ==
    /\ an_result # [made |-> FALSE]
    /\ an_result.requests = 1
    /\ an_call.reply.status = 200
    /\ an_call.reply.json
    /\ ~an_call.reply.body.candidates
    /\ an_result.result.status = "error"

(***************************************************************************)
(* Recurring items.                                                        *)
(***************************************************************************)
\* The places (check, position) of the window where the name appears, lower-cased and trimmed.
Occurrences(name) ==
    {<<c, i>> \in (1..Len(mem_checks)) \X (1..MaxMemItems + 1) :
        /\ mem_checks[c].timestamp >= mem_now - 30
        /\ i <= Len(mem_checks[c].to_sort)
        /\ Strip(Lower(mem_checks[c].to_sort[i])) = name}

\* C4: whenever the memory of a spot is computed, recurring_items holds
\* exactly the lower-cased, trimmed, non-empty names that occur at least 3
\* times in the to_sort lists of the checks of the last 30 days, each with
\* the number of its occurrences: 2 occurrences never make a name recurring,
\* 3 always do.
RecurringItemsExact ==
    [][(MemGetSpot \/ \E l \in MemToSortLists : MemCheck(l)) =>
        /\ DOMAIN mem_recurring' =
             {n \in {<<"m">>, <<"k">>, <<>>} :
                 n # <<>> /\ Cardinality(Occurrences(n)) >= 3}
        /\ \A n \in DOMAIN mem_recurring' :
             mem_recurring'[n] = Cardinality(Occurrences(n))
    ]_vars

\* The memory just computed has "m" alone, with its 3 occurrences in the
\* window, while a check older than the window is in the history.
RecurringAtThree ==
    /\ DOMAIN mem_recurring = {<<"m">>}
    /\ mem_recurring[<<"m">>] = 3
    /\ Cardinality(Occurrences(<<"m">>)) = 3
    /\ \E c \in 1..Len(mem_checks) : mem_checks[c].timestamp < mem_now - 30

(***************************************************************************)
(* Revoked tokens.                                                         *)
(***************************************************************************)
\* C5: once revoke_api_token(id) has returned True, every later
\* verify_api_token of that row's token answers False, whatever was done in
\* between; and a revoke changes the answer verify_api_token gives for no
\* other token: the tokens that were active stay valid.
RevokedStaysInvalid ==
    [][/\ \A token \in TokenStrings :
            (VerifyApiToken(token) /\ token \in tok_revoked) => ~tok_answer'
       /\ \A token \in tok_revoked' : ~VerifyResult(tokens', token)
       /\ \A id \in TokenIds :
            (RevokeApiToken(id) /\ tok_answer') =>
                \A token \in TokenStrings \ {tokens[id].token} :
                    VerifyResult(tokens', token) = VerifyResult(tokens, token)
    ]_vars

\* A revoked token has just been refused while another token is still valid.
RevokedRefused ==
    /\ ~tok_answer
    /\ \E i, j \in TokenIds :
         /\ tokens[i].present /\ tokens[i].token \in tok_revoked
         /\ tokens[j].present /\ tokens[j].is_active /\ tokens[j].last_used

(***************************************************************************)
(* The scheduler's jobs.                                                   *)
(***************************************************************************)
\* The jobs the schedule asks for: one per entry whose time parses and which
\* names at least one valid weekday, with the valid weekdays only.
JobsAskedFor(spot_id, schedule) ==
    {[spot_id |-> spot_id, idx |-> n - 1,
      hour |-> ParseTime(schedule[n].time).hour,
      minute |-> ParseTime(schedule[n].time).minute,
      day_of_week |-> ValidDays(schedule[n].days)] :
        n \in {m \in 1..Len(schedule) :
                 /\ ParseTime(schedule[m].time).ok
                 /\ ValidDays(schedule[m].days) # <<>>}}

\* C8: after update_spot_schedule(spot, S) the jobs of the spot are exactly
\* one job per entry of S with a parsable time and at least one valid weekday
\* abbreviation (invalid abbreviations dropped, no job for an entry without a
\* valid day), none of its earlier jobs is left, and the jobs of the other
\* spots are as they were.
ScheduleReplacesJobs ==
    [][sched_call'.made =>
        /\ {j \in jobs' : j.spot_id = sched_call'.spot_id}
             = JobsAskedFor(sched_call'.spot_id, sched_call'.schedule)
        /\ {j \in jobs' : j.spot_id # sched_call'.spot_id}
             = {j \in jobs : j.spot_id # sched_call'.spot_id}
    ]_vars

\* C9: a run of a fired job calls the callback with the job's spot id, does
\* not raise whatever the callback does (returns after a check, finds no
\* spot, gets no snapshot, raises), and leaves the jobs and the running
\* scheduler as they were.
FiredJobNeverRaises ==
    [][(sched_fired' # sched_fired) =>
        /\ sched_fired'.made
        /\ sched_fired'.job \in jobs
        /\ sched_fired'.called_with = sched_fired'.job.spot_id
        /\ ~sched_fired'.raised
        /\ jobs' = jobs
        /\ sched_running' = sched_running
    ]_vars

\* A job ran with a callback that raised, while another spot has a job too.
FiredWithRaisingCallback ==
    /\ sched_fired.made
    /\ sched_fired.outcome = "raises"
    /\ \E j \in jobs : j.spot_id # sched_fired.job.spot_id

(***************************************************************************)
(* The dream_state_generating flag.                                        *)
(***************************************************************************)
\* C10: whenever a trigger (the first check, upload-initial,
\* generate-dream-state) has set a spot's dream_state_generating flag, the
\* flag is false again at some later time, however the generation ends
\* (image produced, all providers failed, exception raised).
GeneratingEventuallyCleared ==
    \A s \in SpotIds : (dream_state_generating[s] = TRUE) ~> (dream_state_generating[s] = FALSE)

\* A generation that raised has ended with the flag down while the first
\* check's generation of the other spot still holds its flag.
ClearedAfterRaise ==
    \E s \in SpotIds, t \in TaskIds :
       /\ dream_last[s] = "raised"
       /\ ~dream_state_generating[s]
       /\ dream_tasks[t].pc = "generating"
       /\ dream_tasks[t].trigger = "first_check"
       /\ dream_tasks[t].spot_id # s
       /\ dream_state_generating[dream_tasks[t].spot_id]

\* The generations of a spot that are under way.
InFlight(s) ==
    {t \in TaskIds : dream_tasks[t].pc = "generating" /\ dream_tasks[t].spot_id = s}

\* C11 as stated: at most one generation per spot is in flight at a time,
\* whatever the interleaving of the trigger requests at their await points.
OneGenerationPerSpot ==
    \A s \in SpotIds : Cardinality(InFlight(s)) <= 1

\* C11, amended: a trigger that reads a spot row with the flag set is told to
\* skip and starts nothing, and a trigger starts only on a row it read with
\* the flag down; the flag is no lock, triggers whose reads come before the
\* flag is written all start.
SkippedWhileGenerating ==
    [][/\ \A t \in TaskIds :
            (dream_tasks[t].pc = "free" /\ dream_tasks'[t].pc # "free")
               => ~dream_state_generating[dream_tasks'[t].spot_id]
       /\ (dream_skipped' # 0 /\ dream_skipped' # dream_skipped)
               => /\ dream_state_generating[dream_skipped']
                  /\ dream_tasks' = dream_tasks
                  /\ dream_state_generating' = dream_state_generating
    ]_vars

\* A trigger was skipped for a spot whose flag is up with a generation in
\* flight.
TriggerSkipped ==
    \E s \in SpotIds :
       /\ dream_skipped = s
       /\ dream_state_generating[s]
       /\ InFlight(s) # {}

(***************************************************************************)
(* The provider fallback of the dream state generator.                     *)
(***************************************************************************)
\* The fixed order of the providers.
ProviderRank(p) ==
    CASE p = "Replicate" -> 1 [] p = "Gemini" -> 2 [] p = "Hugging Face" -> 3

OnlyRateLimitRetried ==
    /\ \A i, j \in 1..Len(gen_log) :
          (i < j /\ gen_log[i].provider = gen_log[j].provider)
             => gen_log[i].outcome = "rate_limited"
    /\ \A i \in 1..Len(gen_log) : gen_log[i].attempt < 3

(***************************************************************************)
(* Priorities of the to-sort items.                                        *)
(***************************************************************************)
\* C14: every to-sort item of a parsed (non-error) result has its priority in
\* {high, normal, low}; an item whose priority in the reply is another value
\* or is missing comes out with "normal".
PriorityAlwaysValid ==
    /\ Len(pr_result.to_sort) = Len(pr_reply.items)
    /\ \A i \in 1..Len(pr_result.to_sort) :
          /\ pr_result.to_sort[i].priority \in {"high", "normal", "low"}
          /\ ~(pr_reply.items[i].priority.kind = "string"
               /\ pr_reply.items[i].priority.value \in {"high", "normal", "low"})
                => pr_result.to_sort[i].priority = "normal"

(***************************************************************************)
(* Recurring items, by distinct checks.                                    *)
(***************************************************************************)
\* The checks of the window whose to_sort list holds the name, lower-cased
\* and trimmed, at least once.
ChecksNaming(name) == {p[1] : p \in Occurrences(name)}

\* C15: whenever the memory of a spot is computed, a name is recurring
\* exactly when it appears in the to_sort lists of at least 3 distinct checks
\* of the window; several occurrences inside one check count once.
RecurringByDistinctChecks ==
    [][(MemGetSpot \/ \E l \in MemToSortLists : MemCheck(l)) =>
        DOMAIN mem_recurring' =
           {n \in {<<"m">>, <<"k">>} : Cardinality(ChecksNaming(n)) >= 3}
    ]_vars

(***************************************************************************)
(* Best and worst day.                                                     *)
(***************************************************************************)
WeekdayNames ==
    {"Monday", "Tuesday", "Wednesday", "Thursday", "Friday", "Saturday", "Sunday"}

\* The checks of a weekday with one of the statuses, by position.
ChecksOn(d, statuses) ==
    {i \in 1..Len(day_checks) :
        /\ day_checks[i].timestamp >= 0
        /\ Weekday(day_checks[i].timestamp) = d
        /\ day_checks[i].status \in statuses}

AllStatuses == {"sorted", "needs_attention", "error"}

\* The weekdays with at least 3 checks.
QualifyingDays == {d \in WeekdayNames : Cardinality(ChecksOn(d, AllStatuses)) >= 3}

\* Is the sorted ratio of d lower than that of e (compared by cross products).
RatioBelow(d, e) ==
    Cardinality(ChecksOn(d, {"sorted"})) * Cardinality(ChecksOn(e, AllStatuses))
       < Cardinality(ChecksOn(e, {"sorted"})) * Cardinality(ChecksOn(d, AllStatuses))

\* C16 as stated: best_day (worst_day) is the weekday with the highest
\* (lowest) ratio of sorted checks among the weekdays with at least 3 checks,
\* and None when no weekday has 3 checks.
BestDayByRatio ==
    /\ day_best = "None" <=> QualifyingDays = {}
    /\ day_worst = "None" <=> QualifyingDays = {}
    /\ day_best # "None" =>
          /\ day_best \in QualifyingDays
          /\ \A e \in QualifyingDays : ~RatioBelow(day_best, e)
    /\ day_worst # "None" =>
          /\ day_worst \in QualifyingDays
          /\ \A e \in QualifyingDays : ~RatioBelow(e, day_worst)

\* Position of the first check of a weekday with the status.
FirstOn(d, status) ==
    CHOOSE i \in ChecksOn(d, {status}) : \A j \in ChecksOn(d, {status}) : i <= j

\* Is d the weekday with the most checks of the status, the weekday seen
\* first with that status winning a tie.
HasMost(d, status) ==
    /\ ChecksOn(d, {status}) # {}
    /\ \A e \in WeekdayNames \ {d} :
          \/ Cardinality(ChecksOn(e, {status})) < Cardinality(ChecksOn(d, {status}))
          \/ /\ Cardinality(ChecksOn(e, {status})) = Cardinality(ChecksOn(d, {status}))
             /\ FirstOn(d, status) < FirstOn(e, status)

\* C16, amended: best_day is the weekday with the most sorted checks and
\* worst_day the weekday with the most needs_attention checks, whatever the
\* number of checks of the weekday, the first-seen weekday winning a tie;
\* each is None when no check with a readable timestamp has that status.
BestDayByCount ==
    /\ day_best = "None" <=> \A d \in WeekdayNames : ChecksOn(d, {"sorted"}) = {}
    /\ day_worst = "None" <=> \A d \in WeekdayNames : ChecksOn(d, {"needs_attention"}) = {}
    /\ day_best # "None" => HasMost(day_best, "sorted")
    /\ day_worst # "None" => HasMost(day_worst, "needs_attention")

\* Monday and Tuesday tie at two sorted checks, Tuesday seen first; no weekday
\* has 3 checks.
BestDayTie ==
    /\ Cardinality(ChecksOn("Monday", {"sorted"})) = 2
    /\ Cardinality(ChecksOn("Tuesday", {"sorted"})) = 2
    /\ day_checks[1].timestamp = 1
    /\ day_best = "Tuesday"

(***************************************************************************)
(* Levels and XP.                                                          *)
(***************************************************************************)
\* The table levels whose threshold the total has reached.
LevelsReached(xp) == {i \in 1..10 : LEVELS[i] <= xp}

\* C17: the level never goes down when the total goes up; it is the highest
\* of the 10 table levels whose xp_required is at most the total;
\* xp_to_next_level is never negative, and at level 10 it is 0 with
\* xp_progress_percent 100.
LevelMonotonic ==
    [][/\ xp_total' >= xp_total => lv_result'.level >= lv_result.level
       /\ lv_result'.level \in LevelsReached(xp_total')
       /\ \A i \in LevelsReached(xp_total') : i <= lv_result'.level
       /\ lv_result'.xp_to_next_level >= 0
       /\ lv_result'.level = 10 =>
             /\ lv_result'.xp_to_next_level = 0
             /\ lv_result'.xp_progress_percent.num = 100 * lv_result'.xp_progress_percent.den
    ]_vars

\* The total stands exactly on the threshold of level 10.
ReachedTopLevel ==
    /\ xp_total = 7500
    /\ lv_result.level = 10
    /\ lv_result.xp_to_next_level = 0

\* C18: a reset earns 50, plus 25 per streak day up to 250 when the streak is
\* positive, plus 50 when m <= 5, 25 when 5 < m <= 30 and nothing when m > 30
\* or m is unknown; every other action earns its table value, 0 for an
\* unknown action, whatever the streak and the minutes.
ResetXpFormula ==
    xa_call.made =>
       IF xa_call.action = "reset"
       THEN xa_earned =
               50
               + (IF xa_call.streak_days > 0
                  THEN (IF 25 * xa_call.streak_days < 250
                        THEN 25 * xa_call.streak_days ELSE 250)
                  ELSE 0)
               + (IF xa_call.minutes_since_check = Null THEN 0
                  ELSE IF xa_call.minutes_since_check <= 5 THEN 50
                  ELSE IF xa_call.minutes_since_check <= 30 THEN 25
                  ELSE 0)
       ELSE xa_earned =
               (CASE xa_call.action = "sorted" -> 50
                  [] xa_call.action = "quick_reset" -> 75
                  [] xa_call.action = "streak_day" -> 25
                  [] xa_call.action = "first_check" -> 100
                  [] xa_call.action = "perfect_day" -> 200
                  [] OTHER -> 0)

\* A reset on an 11-day streak, 5 minutes after the check: 50 + 250 + 50.
CappedFastReset ==
    /\ xa_call.made
    /\ xa_call.action = "reset"
    /\ xa_call.streak_days = 11
    /\ xa_call.minutes_since_check = 5
    /\ xa_earned = 350

(***************************************************************************)
(* Adapter dispatch.                                                       *)
(***************************************************************************)
\* Do the first characters of the identifier spell the word.
Begins(id, word) ==
    /\ Len(id) >= Len(word)
    /\ \A i \in 1..Len(word) : id[i] = word[i]

\* C19: an identifier starting with camera., rtsp_, mjpeg_ or onvif_ goes to
\* the home-hub, RTSP, MJPEG or ONVIF adapter, and every other identifier,
\* the empty one included, goes to the home-hub adapter, never to none.
DispatchByPrefix ==
    cm_adapter # "unset" =>
       /\ cm_adapter \in {"ha_camera", "rtsp_camera", "mjpeg_camera", "onvif_camera"}
       /\ Begins(cm_camera_id, <<"c", "a", "m", "e", "r", "a", ".">>) => cm_adapter = "ha_camera"
       /\ Begins(cm_camera_id, <<"r", "t", "s", "p", "_">>) => cm_adapter = "rtsp_camera"
       /\ Begins(cm_camera_id, <<"m", "j", "p", "e", "g", "_">>) => cm_adapter = "mjpeg_camera"
       /\ Begins(cm_camera_id, <<"o", "n", "v", "i", "f", "_">>) => cm_adapter = "onvif_camera"
       /\ (/\ ~Begins(cm_camera_id, <<"c", "a", "m", "e", "r", "a", ".">>)
           /\ ~Begins(cm_camera_id, <<"r", "t", "s", "p", "_">>)
           /\ ~Begins(cm_camera_id, <<"m", "j", "p", "e", "g", "_">>)
           /\ ~Begins(cm_camera_id, <<"o", "n", "v", "i", "f", "_">>))
             => cm_adapter = "ha_camera"

\* The identifier "rtsp" (no underscore) was handed to the home-hub adapter.
UnprefixedToHomeHub ==
    /\ cm_camera_id = <<"r", "t", "s", "p">>
    /\ cm_adapter = "ha_camera"

(***************************************************************************)
(* A check saved and read back.                                            *)
(***************************************************************************)
\* The name and the priority of an entry of CheckResult.to_sort; an entry
\* that is neither a dict nor a ToSortItem has a name only.
EntryName(item) ==
    IF item.kind = "dataclass" THEN item.item
    ELSE IF item.kind = "dict" THEN item.d.item
    ELSE Str(item.str)

EntryHasPriority(item) ==
    \/ item.kind = "dataclass"
    \/ item.kind = "dict" /\ "priority" \in DOMAIN item.d

EntryPriority(item) ==
    IF item.kind = "dataclass" THEN item.priority ELSE item.d.priority

\* C20: a check read back by the id save_check returned has the to-sort
\* items of the saved result, name and priority preserved, its looking_good
\* list, and notes holding every note field of the result with its value.
SavedCheckRoundTrip ==
    (ck_loaded.called /\ ck_loaded.found) =>
       LET r == ck_saved[ck_loaded.id]
           c == ck_loaded.check
       IN /\ Len(c.to_sort) = Len(r.to_sort)
          /\ \A i \in 1..Len(r.to_sort) :
                /\ c.to_sort[i].item = EntryName(r.to_sort[i])
                /\ EntryHasPriority(r.to_sort[i]) =>
                      /\ "priority" \in DOMAIN c.to_sort[i]
                      /\ c.to_sort[i].priority = EntryPriority(r.to_sort[i])
          /\ c.looking_good = r.looking_good
          /\ \A k \in r.notes.keys :
                /\ k \in DOMAIN c.notes
                /\ c.notes[k] = r.notes.get[k]

(***************************************************************************)
(* What may change in a saved check.                                       *)
(***************************************************************************)
\* The row with this id, in a table that holds one.
HistRowOf(rows, check_id) ==
    rows[CHOOSE i \in 1..Len(rows) : rows[i].id = check_id]

HistIds(rows) == {rows[i].id : i \in 1..Len(rows)}

\* The columns no request writes after the INSERT.
SameFixedColumns(a, b) ==
    /\ a.spot_id = b.spot_id
    /\ a.timestamp = b.timestamp
    /\ a.status = b.status
    /\ a.looking_good = b.looking_good
    /\ a.error_message = b.error_message
    /\ a.xp_earned = b.xp_earned

\* b is a with the sorted flag of the item at position idx set.
OnlyFlagSet(a, b, idx) ==
    /\ Len(b) = Len(a)
    /\ \A j \in 1..Len(a) :
          IF j = idx
          THEN b[j].item = a[j].item /\ b[j].priority = a[j].priority /\ b[j].sorted
          ELSE b[j] = a[j]

\* C21: while a check is not deleted, its spot id, timestamp, status,
\* looking-good list, error message and XP earned never change; update-check
\* changes the main note of its check only, mark-item-sorted the sorted flag
\* of the indexed item of the spot's latest check only, and no other request
\* changes a saved check.
SavedCheckFrame ==
    [][\A c \in HistIds(hc_checks) \cap HistIds(hc_checks') :
          LET a == HistRowOf(hc_checks, c)
              b == HistRowOf(hc_checks', c)
          IN /\ SameFixedColumns(a, b)
             /\ IF hc_op'[1] = "update_check" /\ Len(hc_op') = 3 /\ hc_op'[3] = c
                THEN b.to_sort = a.to_sort
                ELSE IF hc_op'[1] = "mark_item_sorted" /\ Len(hc_op') = 4 /\ hc_op'[3] = c
                THEN /\ b.notes_main = a.notes_main
                     /\ \A d \in HistIds(hc_checks) :
                           HistRowOf(hc_checks, d).spot_id = a.spot_id
                              => HistRowOf(hc_checks, d).timestamp <= a.timestamp
                     /\ OnlyFlagSet(a.to_sort, b.to_sort, hc_op'[4] + 1)
                ELSE b = a]_vars

\* The second item of a spot's latest check was marked, the first is not,
\* and another check, with an edited note, is in the table.
MarkedBesideEditedCheck ==
    /\ hc_op[1] = "mark_item_sorted"
    /\ Len(hc_op) = 4
    /\ hc_op[4] = 1
    /\ \E i, j \in 1..Len(hc_checks) :
          /\ i # j
          /\ hc_checks[i].notes_main = "moved the mug"
          /\ hc_checks[j].id = hc_op[3]
          /\ hc_checks[j].to_sort[2].sorted
          /\ ~hc_checks[j].to_sort[1].sorted

(***************************************************************************)
(* The scheduler after a schedule request.                                 *)
(***************************************************************************)
\* C22: once a PUT or DELETE of a spot's schedule has succeeded, the running
\* scheduler's jobs of that spot are the jobs of the schedule now stored: one
\* per entry, none after a clear.
JobsFollowStoredSchedule ==
    (sched_running /\ api_resp.made /\ api_resp.status = 200) =>
       {j \in jobs : j.spot_id = api_resp.spot_id}
          = JobsAskedFor(api_resp.spot_id, api_schedule[api_resp.spot_id])

(***************************************************************************)
(* The flag when a generation starts.                                      *)
(***************************************************************************)
\* The background task, or the inline generation, of this slot exists.
GenerationStarted(task) == task.pc \in {"created", "generating"}

\* C23: in the step in which a trigger creates its generation task, the
\* dream_state_generating flag of the spot is true in the database, so any
\* later read of the spot, until the generation ends, finds it set.
FlagSetWhenTaskCreated ==
    [][\A t \in TaskIds :
          (GenerationStarted(dream_tasks'[t]) /\ ~GenerationStarted(dream_tasks[t]))
             => dream_state_generating'[dream_tasks'[t].spot_id]]_vars

(***************************************************************************)
(* The waits of a snapshot call.                                           *)
(***************************************************************************)
\* The call is over and each of its attempts failed with an error that is
\* retried.
AllAttemptsFailedRetryable ==
    /\ ha_pc = "done"
    /\ ha_token
    /\ Len(ha_log) >= 1
    /\ \A i \in 1..Len(ha_log) :
          ~ha_log[i].data /\ ha_log[i].error_type \notin {"auth", "not_found"}

\* C24 as stated: such a call has waited 1s, 2s and 4s, once after each of
\* its 3 failed attempts.
BackoffAfterEachAttempt ==
    AllAttemptsFailedRetryable => ha_backoffs = <<1, 2, 4>>

\* C24, amended: such a call has made 3 attempts and waited 1s after the
\* first and 2s after the second; it does not wait after the third.
BackoffBetweenAttempts ==
    AllAttemptsFailedRetryable =>
       /\ Len(ha_log) = 3
       /\ ha_backoffs = <<1, 2>>

\* A get_snapshot call that ended after three timeouts.
ThreeTimeouts ==
    /\ AllAttemptsFailedRetryable
    /\ ha_method = "get_snapshot"
    /\ \A i \in 1..Len(ha_log) : ha_log[i].error_type = "timeout"

(***************************************************************************)
(* Cached credentials.                                                     *)
(***************************************************************************)
\* C25: between two invalidations an object reads the settings at most once;
\* a use of an object that has loaded its credentials returns the loaded
\* ones whatever the settings are now, and the first use after an
\* invalidation (or after construction) returns what the settings hold now,
\* or the environment's fallback where they hold nothing.
CredentialsCachedUntilInvalidated ==
    [][/\ cr_reads'.camera <= 1
       /\ cr_reads'.analyzer <= 1
       /\ (cr_last' # cr_last /\ cr_last'.who = "camera") =>
             IF cr_camera.loaded
             THEN /\ cr_last'.url = cr_camera.url
                  /\ cr_last'.token = cr_camera.token
                  /\ cr_reads' = cr_reads
             ELSE /\ cr_last'.url =
                        (IF cr_store.ha_url # "" THEN cr_store.ha_url
                         ELSE IF cr_env.SUPERVISOR_TOKEN # "" THEN "http://supervisor/core"
                         ELSE cr_env.HA_BASE_URL)
                  /\ cr_store.ha_token # "" => cr_last'.token = cr_store.ha_token
                  /\ cr_store.ha_token = "" =>
                        cr_last'.token \in {cr_env.SUPERVISOR_TOKEN, cr_env.HASSIO_TOKEN,
                                             cr_env.token_file}
       /\ (cr_last' # cr_last /\ cr_last'.who = "analyzer") =>
             IF cr_analyzer.loaded
             THEN cr_last'.key = cr_analyzer.key /\ cr_reads' = cr_reads
             ELSE cr_last'.key = (IF cr_store.gemini_api_key # "" THEN cr_store.gemini_api_key
                                  ELSE cr_env.GEMINI_API_KEY)
      ]_vars

\* The camera object was used after the token in the settings had changed
\* and, not invalidated, got the token it loaded first.
StaleTokenUsed ==
    /\ cr_last.who = "camera"
    /\ cr_last.cached
    /\ cr_last.token = "t1"
    /\ cr_store.ha_token = "t2"
    /\ cr_reads.camera = 1

(***************************************************************************)
(* What a reset request awards.                                            *)
(***************************************************************************)
\* C26: a reset request whose verification is not sorted changes neither the
\* XP, the achievements nor the same-day reset counter, nor the spot's
\* total_resets and longest_streak; it sets current_streak to 0 and its
\* check is saved.  A request records a reset and adds XP only when the
\* verification is sorted.
UnverifiedResetAwardsNothing ==
    [][(rw_checks' # rw_checks) =>
         LET status == rw_checks'[Len(rw_checks')] IN
         /\ Len(rw_checks') = Len(rw_checks) + 1
         /\ rw_spot'.status = status
         /\ status # "sorted" =>
               /\ rw_game' = rw_game
               /\ rw_spot'.total_resets = rw_spot.total_resets
               /\ rw_spot'.longest_streak = rw_spot.longest_streak
               /\ rw_spot'.current_streak = 0
         /\ (rw_spot'.total_resets # rw_spot.total_resets
               \/ rw_game'.xp_total # rw_game.xp_total) => status = "sorted"
      ]_vars

\* After two verified resets a verification came back with an error.
RefusedAfterRewards ==
    /\ rw_resp.made
    /\ rw_resp.status = "error"
    /\ rw_spot.total_resets = 2
    /\ rw_spot.longest_streak = 2
    /\ rw_spot.current_streak = 0
    /\ rw_game.xp_total > 0

\* The sum of the bonuses of a list of achievements.
RECURSIVE BonusSum(_)
BonusSum(ids) == IF ids = <<>> THEN 0 ELSE XpBonus(Head(ids)) + BonusSum(Tail(ids))

\* C28: the unlocked list never holds an id twice and never loses one;
\* unlock_achievement returns true exactly for an id not yet in the list;
\* and a reset adds the bonus of an achievement to the XP only in the request
\* that unlocks it.
AchievementUnlockedOnce ==
    [][/\ \A i, j \in 1..Len(rw_game'.achievements) :
             rw_game'.achievements[i] = rw_game'.achievements[j] => i = j
       /\ Len(rw_game'.achievements) >= Len(rw_game.achievements)
       /\ SubSeq(rw_game'.achievements, 1, Len(rw_game.achievements)) = rw_game.achievements
       /\ (rw_checks' # rw_checks) =>
             /\ rw_game'.achievements = rw_game.achievements \o rw_resp'.achievements_unlocked
             /\ \A c \in 1..Len(rw_resp'.calls) :
                   rw_resp'.calls[c].returned <=>
                      ~SeqHas(rw_game.achievements, rw_resp'.calls[c].id)
             /\ rw_game'.xp_total =
                   rw_game.xp_total + rw_resp'.base_xp
                      + BonusSum(rw_resp'.achievements_unlocked)
      ]_vars

\* A reset for which unlock_achievement was asked again about first_blood,
\* unlocked before, and said no, while it unlocked streak_3.
UnlockRefusedForOldAchievement ==
    /\ rw_resp.made
    /\ rw_resp.reset
    /\ SeqHas(rw_resp.calls, [id |-> "first_blood", returned |-> FALSE])
    /\ SeqHas(rw_resp.calls, [id |-> "streak_3", returned |-> TRUE])

(***************************************************************************)
(* The daily challenge.                                                    *)
(***************************************************************************)
\* The requests that were made on a day and answered with success.
DcGranted(day) ==
    {r \in DcRequests : dc_req[r].pc = "done" /\ dc_req[r].today = day /\ dc_req[r].success}

\* One reward for each day up to the given one that has a success.
RECURSIVE DcRewards(_)
DcRewards(day) ==
    IF day < 0 THEN 0
    ELSE (IF DcGranted(day) # {} THEN GetDailyChallenge(day) ELSE 0) + DcRewards(day - 1)

\* C27: on one UTC day at most one complete-daily-challenge request is
\* answered with success, in any interleaving, and the XP added is the
\* reward of one challenge per day with a success.
DailyRewardOnce ==
    /\ \A day \in 0..MaxDcDay : Cardinality(DcGranted(day)) <= 1
    /\ (\A r \in DcRequests : dc_req[r].pc \in {"idle", "done"}) =>
          dc_xp = DcRewards(MaxDcDay)

(***************************************************************************)
(* Counting resets.                                                        *)
(***************************************************************************)
\* The record_reset calls that have completed.
RrCompleted == {c \in RrCalls : rr_req[c].pc = "done"}

\* C29: after n record_reset calls on a spot have completed, interleaved in
\* any way, total_resets is n higher than before, and so is current_streak
\* when the streak was not reset in between.
EveryResetCounted ==
    /\ rr_spot.total_resets = rr_before.total_resets + Cardinality(RrCompleted)
    /\ rr_streak_resets = 0 =>
          rr_spot.current_streak = rr_before.current_streak + Cardinality(RrCompleted)

(***************************************************************************)
(* Snoozed spots.                                                          *)
(***************************************************************************)
\* C30: after every step a spot whose status is snoozed has a snoozed_until;
\* only a spot that exists is made snoozed; and a step that clears the
\* snoozed_until of a spot that stays leaves the spot with status unknown.
SnoozedHasUntil ==
    [][\A s \in SpotIds :
          /\ (spots'[s].present /\ spots'[s].status = "snoozed") =>
                spots'[s].snoozed_until # Null
          /\ (spots'[s].present /\ spots'[s].status = "snoozed"
                /\ ~(spots[s].present /\ spots[s].status = "snoozed")) =>
                spots[s].present
          /\ (spots[s].present /\ spots'[s].present
                /\ spots[s].snoozed_until # Null /\ spots'[s].snoozed_until = Null) =>
                spots'[s].status = "unknown"
      ]_vars

\* A spot still has the status snoozed after its snooze has run out.
SnoozeRanOut ==
    \E s \in SpotIds :
        /\ spots[s].present
        /\ spots[s].status = "snoozed"
        /\ spots[s].snoozed_until # Null
        /\ spots[s].snoozed_until <= now

====
